---- MODULE Spec2Model ----
(***************************************************************************)
(* A model of grit (grailbio/grit): the rule engine, the incremental sync  *)
(* algorithm of main(), Repo.Patch's path handling, and the checkout       *)
(* locking of git.Open.                                                    *)
(*                                                                         *)
(* Strings are sequences of one-character strings, so that prefix tests,   *)
(* prefix trimming, path joining and regular-expression matching are       *)
(* computed and not assumed.  A git history is a sequence of commits,      *)
(* oldest first.                                                           *)
(***************************************************************************)
EXTENDS Integers, Sequences, FiniteSets, TLC

(***************************************************************************)
(* Bounds of the model.                                                    *)
(***************************************************************************)
\* developer commits and sync runs in one behaviour
MaxEvents == 3
\* developer commits in one behaviour: runs are to follow them, so they are
\* at most half of the events (rounded up)
MaxCommits == (MaxEvents + 1) \div 2
\* bytes in the body of a diff handed to the rewrite rules
MaxBody == 2
\* rewrite rules on one command line
MaxRewrites == 2
\* rules on one command line
MaxRules == 2

(***************************************************************************)
(* Program constants.                                                      *)
(***************************************************************************)
\* Hex()[:7]: the length of the short digest of a sync trailer, and the
\* minimal length of a strip-commit prefix.
ShortLen == 7

(***************************************************************************)
(* Strings.                                                                *)
(***************************************************************************)
HasPrefix(s, p) == Len(p) <= Len(s) /\ SubSeq(s, 1, Len(p)) = p

TrimPrefix(s, p) == IF HasPrefix(s, p) THEN SubSeq(s, Len(p) + 1, Len(s)) ELSE s

Contains(s, sub) ==
    \E k \in 0..(Len(s) - Len(sub)) : SubSeq(s, k + 1, k + Len(sub)) = sub

\* filepath.Clean on paths without "." and "..": repeated separators are
\* collapsed and a trailing separator is dropped.
RECURSIVE Clean(_)
Clean(p) ==
    IF Len(p) <= 1 THEN p
    ELSE IF p[1] = "/" /\ p[2] = "/" THEN Clean(Tail(p))
    ELSE IF Len(p) = 2 /\ p[2] = "/" THEN <<p[1]>>
    ELSE <<p[1]>> \o Clean(Tail(p))

\* filepath.Join(a, b): empty elements are ignored, the result is cleaned.
Join(a, b) ==
    IF a = <<>> THEN Clean(b)
    ELSE IF b = <<>> THEN Clean(a)
    ELSE Clean(a \o <<"/">> \o b)

\* A compiled regular expression of the form [^]literal[$].
Re(anchS, lit, anchE) == [anchS |-> anchS, lit |-> lit, anchE |-> anchE]

\* regexp.MatchString for the expressions above: the literal occurs in s,
\* at the start if anchored with ^, up to the end if anchored with $.
MatchString(re, s) ==
    \E k \in 0..(Len(s) - Len(re.lit)) :
        /\ SubSeq(s, k + 1, k + Len(re.lit)) = re.lit
        /\ (re.anchS => k = 0)
        /\ (re.anchE => k + Len(re.lit) = Len(s))

(***************************************************************************)
(* Digests.  A digest is the hex string of a commit id; the model gives    *)
(* commit n a digest whose first two digits are n, so that short digests   *)
(* are distinct.  Hex() is lower case.                                     *)
(***************************************************************************)
HexDigits == <<"0", "1", "2", "3", "4", "5", "6", "7", "8", "9",
               "a", "b", "c", "d", "e", "f">>

Hex(n) ==
    <<HexDigits[((n \div 16) % 16) + 1], HexDigits[(n % 16) + 1]>>
        \o <<"a", "b", "c", "d", "e", "f">>

Short(hex) == SubSeq(hex, 1, ShortLen)

ToUpper(c) ==
    CASE c = "a" -> "A" [] c = "b" -> "B" [] c = "c" -> "C"
      [] c = "d" -> "D" [] c = "e" -> "E" [] c = "f" -> "F"
      [] OTHER -> c

UpperHex(s) == [k \in 1..Len(s) |-> ToUpper(s[k])]

(***************************************************************************)
(* Commits, diffs and repositories.                                        *)
(*                                                                         *)
(* A Diff is [Path, Body].  A commit is [id, files, subject, body]: files  *)
(* is the sequence of its diffs in the order git prints them, body the     *)
(* lines of its message after the subject.  A line is text, blank, or a    *)
(* sync trailer "fbshipit-source-id: <v>".                                 *)
(***************************************************************************)
URLs == {1, 2}

NoPrefix == <<>>
DirPrefix == <<"p", "/">>

TextLine == [k |-> "text", v |-> <<>>]
BlankLine == [k |-> "blank", v |-> <<>>]
TagLine(id) == [k |-> "tag", v |-> id]
\* the line "Commit message stripped." of a stripped message (main.go)
StubLine == [k |-> "stub", v |-> <<>>]

\* a trailer naming no commit of any repository (main_test.go: bb96450)
ForeignID == <<"b", "b", "9", "6", "4", "5", "0">>

TextBody == <<"t">>
\* a diff body of an LFS pointer file: it adds the line that declares the oid
PointerBody == <<"+", "o", "i", "d">>

Diff(path, body) == [Path |-> path, Body |-> body]

\* What a developer commit may be in a repository viewed under prefix: the
\* diffs it touches (inside the prefix, and one outside of it if there is an
\* outside) and the body of its message (empty, or a fabricated sync
\* trailer; the commit of the pointer file has a line of text).  Without
\* path rules the files B and f behave alike, and only f is offered.  With
\* squash the commit may also be a squash of copies: its body carries the
\* trailers of the root commit of the first url and of the first developer
\* commit, in chronological order.
CommitMenu(prefix, pathRules, squash) ==
    LET B == Diff(prefix \o <<"B">>, TextBody)
        f == Diff(prefix \o <<"f">>, TextBody)
        L == Diff(prefix \o <<"L">>, PointerBody)
        x == Diff(<<"x">>, TextBody)
        tag == <<TagLine(ForeignID)>>
        plain == {<<f>>, <<L>>}
                    \cup (IF pathRules THEN {<<B>>, <<B, f>>} ELSE {})
                    \cup (IF prefix = NoPrefix THEN {}
                          ELSE IF pathRules THEN {<<B, x>>} ELSE {<<f, x>>})
        tagged == {<<f>>} \cup (IF pathRules THEN {<<B>>} ELSE {})
    IN  {[files |-> fs, body |-> IF fs = <<L>> THEN <<TextLine>> ELSE <<>>] : fs \in plain}
            \cup {[files |-> fs, body |-> tag] : fs \in tagged}
            \cup (IF squash
                  THEN {[files |-> <<f>>,
                         body |-> <<TagLine(SubSeq(Hex(1), 1, ShortLen)),
                                    TagLine(SubSeq(Hex(Cardinality(URLs) + 1), 1, ShortLen))>>]}
                  ELSE {})

(***************************************************************************)
(* The rule set (type rules).                                              *)
(***************************************************************************)
StripMenu ==
    { <<>>,
      <<Re(TRUE, <<"B">>, TRUE)>>,        \* strip:^B$
      <<Re(FALSE, <<"B">>, TRUE)>> }      \* strip:B$

StripMessageMenu ==
    { <<>>, <<Re(FALSE, <<"f">>, TRUE)>> }   \* strip-message:f$

\* strip-commit: the short digest of the first developer commit, in lower
\* or in upper case (both pass the validation of main).
FirstDevId == Cardinality(URLs) + 1

StripCommitMenu ==
    { <<>>, <<Short(Hex(FirstDevId))>>, <<UpperHex(Short(Hex(FirstDevId)))>> }

\* main's validation of a strip-commit rule.
ValidStripCommit(hash) ==
    /\ Len(hash) >= ShortLen
    /\ \A k \in 1..Len(hash) :
          \E d \in 1..Len(HexDigits) : hash[k] \in {HexDigits[d], ToUpper(HexDigits[d])}

VARIABLES
    remote,      \* remote[u]: the history of the branch at url u
    local,       \* local[u]: the history of the cached checkout of u
    prefix,      \* prefix[u]: the prefix under which u is viewed
    rules,       \* the rule set of every run
    mode,        \* the flags of every run: "push", "dump" or "plain"
    nextId,      \* the id of the next commit to be created
    nevents,     \* developer commits and runs so far
    ndev,        \* developer commits so far
    pc,          \* position of the current run in main
    cfg,         \* src, dst, push, dump of the current run
    head,        \* Step 1: index in local[dst] the search starts from
    lastCommit,  \* index in local[dst] of the accepted commit, 0: nil
    commits,     \* the candidates, as Log returned (newest first)
    i,           \* index into commits of the per-commit loop
    ncommit,     \* commits counted as applied
    patch,       \* the patch being applied or dumped
    ptrs,        \* LFS pointers left to examine for the applied patch
    trace,       \* the external operations of the current run, in order
    prev,        \* the run that ended last, if nothing happened since
    unsynced     \* unsynced[s][d]: a developer commit reached s after the
                 \* last run from s to d that ended well and pushed

syncVars == <<remote, local, prefix, rules, mode, nextId, nevents, ndev, pc, cfg,
              head, lastCommit, commits, i, ncommit, patch, ptrs, trace, prev,
              unsynced>>

\* the concurrent processes of the second part of the model
VARIABLES
    runOf,       \* runOf[p]: the source and destination url of process p
    ppc,         \* ppc[p]: position of process p
    opening,     \* opening[p]: which of its repositories p is opening, 1 or 2
    statErr,     \* statErr[p]: os.Stat found no checkout
    lk,          \* lk[u]: the process holding the lock of checkout u, or 0
    checkout,    \* checkout[u]: the cached checkout of u exists
    waited       \* waited[p]: p found a lock held and blocked on it

lockVars == <<runOf, ppc, opening, statErr, lk, checkout, waited>>

\* the functions of the third part of the model, applied to their inputs
VARIABLES
    rwRules,     \* rules.rewrite: the rewrite rules, in declaration order
    rwOrig,      \* the diff as it was handed to rules.rewriteDiff
    rwDiff,      \* the diff rules.rewriteDiff works on
    rwDone,      \* rules.rewriteDiff has returned
    envRaw,      \* the bytes of a patch, as git format-patch wrote them
    envPatch,    \* the Patch parsePatchHeader made of envRaw
    envText,     \* the bytes Patch.Write made of envPatch
    envBack,     \* the Patch parsePatchHeader made of envText
    envPc,       \* position of the round trip
    cl,          \* a process from its command line to the opening of the
                 \* repositories: args, pc, exit status, rules, operations
    repoOp       \* one operation of a Repo, its inputs, its position and
                 \* what it has done so far

rwVars == <<rwRules, rwOrig, rwDiff, rwDone>>

envVars == <<envRaw, envPatch, envText, envBack, envPc>>

pureVars == <<rwVars, envVars, cl, repoOp>>

vars == <<syncVars, lockVars, pureVars>>

(***************************************************************************)
(* rules: isStripped, isPathStripped, isMessagePathStripped.               *)
(***************************************************************************)
isStripped(r, c) ==
    \E k \in 1..Len(r.stripCommits) : HasPrefix(Hex(c.id), r.stripCommits[k])

isPathStripped(r, path) ==
    \E k \in 1..Len(r.strip) : MatchString(r.strip[k], path)

isMessagePathStripped(r, path) ==
    \E k \in 1..Len(r.stripMessagePaths) : MatchString(r.stripMessagePaths[k], path)

(***************************************************************************)
(* rewriteRule.rewrite and rules.rewriteDiff.  The from expression of a    *)
(* rule is a literal, the replacement has no $.                            *)
(***************************************************************************)
RewriteRule(pathRe, old, new) == [pathRe |-> pathRe, old |-> old, new |-> new]

\* bytes.Split(s, "\n"): the pieces between the newlines, one more than
\* there are newlines
RECURSIVE Split(_)
Split(s) ==
    IF \A k \in 1..Len(s) : s[k] # "\n" THEN <<s>>
    ELSE LET k == CHOOSE j \in 1..Len(s) :
                      s[j] = "\n" /\ \A m \in 1..(j - 1) : s[m] # "\n"
         IN  <<SubSeq(s, 1, k - 1)>> \o Split(SubSeq(s, k + 1, Len(s)))

\* oldRe.ReplaceAll(line, new): the occurrences of the literal, leftmost
\* first and not overlapping, are replaced
RECURSIVE ReplaceAll(_, _, _)
ReplaceAll(line, old, new) ==
    IF Len(line) < Len(old) THEN line
    ELSE IF HasPrefix(line, old)
    THEN new \o ReplaceAll(SubSeq(line, Len(old) + 1, Len(line)), old, new)
    ELSE <<Head(line)>> \o ReplaceAll(Tail(line), old, new)

RECURSIVE WriteLines(_, _)
WriteLines(r, lines) ==
    IF lines = <<>> THEN <<>>
    ELSE ReplaceAll(Head(lines), r.old, r.new) \o <<"\n">> \o WriteLines(r, Tail(lines))

\* rewriteRule.rewrite(diff)
rewrite(r, body) == WriteLines(r, Split(body))

\* every matching rule applied to the body the diff came with, the result
\* of the last one kept
RECURSIVE rewriteDiff_Independent(_, _)
rewriteDiff_Independent(rs, diff) ==
    IF rs = <<>> THEN diff
    ELSE IF MatchString(rs[Len(rs)].pathRe, diff.Path)
    THEN [diff EXCEPT !.Body = rewrite(rs[Len(rs)], diff.Body)]
    ELSE rewriteDiff_Independent(SubSeq(rs, 1, Len(rs) - 1), diff)

\* rules.rewriteDiff(diff): the rules in declaration order, each on the body
\* the one before has left
RECURSIVE rewriteDiff(_, _)
rewriteDiff(rs, diff) ==
    IF rs = <<>> THEN diff
    ELSE rewriteDiff(Tail(rs),
             IF MatchString(Head(rs).pathRe, diff.Path)
             THEN [diff EXCEPT !.Body = rewrite(Head(rs), diff.Body)]
             ELSE diff)

(***************************************************************************)
(* The envelope of a patch: Patch.Write and parsePatchHeader.  The bytes    *)
(* of a patch are a record of its From line (as bytes.Fields splits it),    *)
(* the values of its From, Date and Subject headers as written, and the     *)
(* lines after the blank line.  A Date value is the record of its lexical   *)
(* fields; minutes and seconds stand for the date and the time of day.      *)
(***************************************************************************)
RECURSIVE TrimLeft(_)
TrimLeft(s) == IF s # <<>> /\ Head(s) = " " THEN TrimLeft(Tail(s)) ELSE s

RECURSIVE TrimRight(_)
TrimRight(s) ==
    IF s # <<>> /\ s[Len(s)] = " " THEN TrimRight(SubSeq(s, 1, Len(s) - 1)) ELSE s

TrimSpace(s) == TrimLeft(TrimRight(s))

IndexOf(s, c) ==
    IF \A k \in 1..Len(s) : s[k] # c THEN 0
    ELSE CHOOSE k \in 1..Len(s) : s[k] = c /\ \A m \in 1..(k - 1) : s[m] # c

\* textproto's reading of a header value: a continuation line is joined to
\* the line before with one space, the value is trimmed
RECURSIVE Unfold(_)
Unfold(s) ==
    IF s = <<>> THEN <<>>
    ELSE IF Head(s) = "\n" THEN <<" ">> \o Unfold(TrimLeft(Tail(s)))
    ELSE <<Head(s)>> \o Unfold(Tail(s))

HeaderGet(value) == TrimSpace(Unfold(value))

\* SHA1.Parse: the digest a hex string spells
ParseDigest(hex) ==
    IF \E n \in 0..255 : Hex(n) = hex
    THEN [ok |-> TRUE, id |-> CHOOSE n \in 0..255 : Hex(n) = hex]
    ELSE [ok |-> FALSE, id |-> 0]

\* mail.Address and its String(): the name as a quoted string, the address
\* in angle brackets
Address(name, addr) == [name |-> name, addr |-> addr]

RECURSIVE Quote(_)
Quote(s) ==
    IF s = <<>> THEN <<>>
    ELSE (IF Head(s) \in {"\"", "\\"} THEN <<"\\", Head(s)>> ELSE <<Head(s)>>)
             \o Quote(Tail(s))

RECURSIVE Unquote(_)
Unquote(s) ==
    IF s = <<>> THEN <<>>
    ELSE IF Head(s) = "\\" /\ Len(s) >= 2 THEN <<s[2]>> \o Unquote(SubSeq(s, 3, Len(s)))
    ELSE <<Head(s)>> \o Unquote(Tail(s))

AddressString(a) ==
    (IF a.name = <<>> THEN <<>> ELSE <<"\"">> \o Quote(a.name) \o <<"\"", " ">>)
        \o <<"<">> \o a.addr \o <<">">>

\* the place of the quote that closes a quoted string scanned from j on
RECURSIVE CloseQuote(_, _)
CloseQuote(s, j) ==
    IF j > Len(s) THEN 0
    ELSE IF s[j] = "\\" THEN CloseQuote(s, j + 2)
    ELSE IF s[j] = "\"" THEN j
    ELSE CloseQuote(s, j + 1)

NoAddress == [ok |-> FALSE, name |-> <<>>, addr |-> <<>>]

\* the angle address at the end of s
AngleAddr(s, name) ==
    IF Len(s) >= 3 /\ s[1] = "<" /\ s[Len(s)] = ">"
           /\ IndexOf(SubSeq(s, 2, Len(s) - 1), "<") = 0
           /\ IndexOf(SubSeq(s, 2, Len(s) - 1), ">") = 0
    THEN [ok |-> TRUE, name |-> name, addr |-> SubSeq(s, 2, Len(s) - 1)]
    ELSE NoAddress

\* one address of a list: "name" <addr>, name <addr>, <addr> or addr
ParseAddress(s) ==
    IF s = <<>> THEN NoAddress
    ELSE IF s[1] = "\""
    THEN LET q == CloseQuote(s, 2)
         IN  IF q = 0 THEN NoAddress
             ELSE AngleAddr(TrimLeft(SubSeq(s, q + 1, Len(s))),
                            Unquote(SubSeq(s, 2, q - 1)))
    ELSE IF IndexOf(s, "<") # 0
    THEN AngleAddr(SubSeq(s, IndexOf(s, "<"), Len(s)),
                   TrimSpace(SubSeq(s, 1, IndexOf(s, "<") - 1)))
    ELSE IF IndexOf(s, " ") = 0 /\ IndexOf(s, ">") = 0
    THEN [ok |-> TRUE, name |-> <<>>, addr |-> s]
    ELSE NoAddress

\* Header.AddressList: the addresses between the commas (no name of the
\* model has a comma)
RECURSIVE AddressList(_)
AddressList(s) ==
    LET k == IndexOf(s, ",")
    IN  IF k = 0 THEN <<ParseAddress(TrimSpace(s))>>
        ELSE <<ParseAddress(TrimSpace(SubSeq(s, 1, k - 1)))>>
                 \o AddressList(SubSeq(s, k + 1, Len(s)))

\* Header.Date: the instant and the zone offset (in hours) a Date value
\* names; a value without seconds names second 0
ParseDate(d) ==
    [unix |-> 60 * d.min + (IF d.hasSec THEN d.sec ELSE 0) - 3600 * d.zone,
     off |-> d.zone]

\* the time written without its zone
FormatDate_NoZone(t) ==
    LET l == t.unix + 3600 * t.off
    IN  [ok |-> TRUE, wd |-> TRUE, min |-> l \div 60, hasSec |-> TRUE, sec |-> l % 60,
         zone |-> 0]

\* Time.Format(gitTimeLayout), "Mon, 2 Jan 2006 15:04:05 -0700"
FormatDate(t) ==
    LET l == t.unix + 3600 * t.off
    IN  [ok |-> TRUE, wd |-> TRUE, min |-> l \div 60, hasSec |-> TRUE, sec |-> l % 60,
         zone |-> t.off]

NoEnvelope == [ID |-> 0, Author |-> <<>>, Time |-> [unix |-> 0, off |-> 0],
               Subject |-> <<>>, Body |-> <<>>]

parsePatchHeader(b) ==
    LET id == ParseDigest(b.from[2])
        addrs == AddressList(b.author)
        subject == HeaderGet(b.subject)
    IN  IF Len(b.from) < 2 THEN [err |-> "malformed patch", p |-> NoEnvelope]
        ELSE IF ~id.ok THEN [err |-> "digest", p |-> NoEnvelope]
        ELSE IF \E k \in 1..Len(addrs) : ~addrs[k].ok THEN [err |-> "address", p |-> NoEnvelope]
        ELSE IF Len(addrs) # 1 THEN [err |-> "malformed patch", p |-> NoEnvelope]
        ELSE IF ~b.date.ok THEN [err |-> "date", p |-> NoEnvelope]
        ELSE IF subject = <<>> THEN [err |-> "patch is missing subject", p |-> NoEnvelope]
        ELSE [err |-> "",
              p |-> [ID |-> id.id,
                     Author |-> AddressString(Address(addrs[1].name, addrs[1].addr)),
                     Time |-> ParseDate(b.date),
                     Subject |-> subject,
                     Body |-> b.body]]

\* parseDiffHeader: the path of a line diff --git a/<path> ..., "" if the
\* line is not of this form.  A line is the sequence of its words, the a/
\* a word of its own.
parseDiffHeader(line) ==
    IF Len(line) >= 4 /\ line[1] = "diff" /\ line[2] = "--git" /\ line[3] = "a/"
    THEN line[4] ELSE ""

\* bytes.Index(b, "\ndiff"): the lines from the first that begins with diff
RECURSIVE NextDiff(_)
NextDiff(lines) ==
    IF lines = <<>> \/ (Head(lines) # <<>> /\ Head(lines)[1] = "diff") THEN lines
    ELSE NextDiff(Tail(lines))

\* a loop over the sections that leaves out a section without a header
RECURSIVE ParseDiffs_DropBad(_)
ParseDiffs_DropBad(lines) ==
    LET sect == NextDiff(lines)
    IN  IF sect = <<>> THEN [err |-> "", paths |-> <<>>]
        ELSE LET r == ParseDiffs_DropBad(Tail(sect))
             IN  IF parseDiffHeader(Head(sect)) = "" THEN r
                 ELSE [err |-> "", paths |-> <<parseDiffHeader(Head(sect))>> \o r.paths]

\* Repo.Patch: foreach(rawdiffs, "diff", ...) with its callback; the paths of
\* the sections, or the error of the first section without a header
RECURSIVE ParseDiffs(_)
ParseDiffs(lines) ==
    LET sect == NextDiff(lines)
    IN  IF sect = <<>> THEN [err |-> "", paths |-> <<>>]
        ELSE IF parseDiffHeader(Head(sect)) = ""
        THEN [err |-> "diff is missing header", paths |-> <<>>]
        ELSE LET r == ParseDiffs(Tail(sect))
             IN  IF r.err # "" THEN r
                 ELSE [err |-> "", paths |-> <<parseDiffHeader(Head(sect))>> \o r.paths]

\* Repo.Patch up to fixPath: the header is parsed, then the sections; an
\* error of either returns Patch{}
PatchFromText(b) ==
    LET h == parsePatchHeader(b)
        d == ParseDiffs(b.diffs)
    IN  IF h.err # "" THEN [err |-> h.err, p |-> NoEnvelope, paths |-> <<>>]
        ELSE IF d.err # "" THEN [err |-> d.err, p |-> NoEnvelope, paths |-> <<>>]
        ELSE [err |-> "", p |-> h.p, paths |-> d.paths]

zeroWidthSpace == "\\u200b"

\* the lines of the body after the first that begin with diff, --- or +++
\* get a zero width space in front
EscapeBody(body) ==
    [k \in 1..Len(body) |->
        IF k > 1 /\ body[k] \in {"diff", "---", "+++"} THEN zeroWidthSpace \o body[k]
        ELSE body[k]]

\* Patch.Write, up to the diffs
Write(p) ==
    [from |-> <<"From", Hex(p.ID), "Mon", "Sep", "17", "00:00:00", "2001">>,
     author |-> p.Author,
     date |-> FormatDate(p.Time),
     subject |-> p.Subject,
     body |-> EscapeBody(p.Body) \o <<"---", "", "">>]

(***************************************************************************)
(* Commit.ShipitID: the identifiers of the sync trailers, in order.        *)
(***************************************************************************)
RECURSIVE TagsOf(_)
TagsOf(body) ==
    IF body = <<>> THEN <<>>
    ELSE (IF Head(body).k = "tag" THEN <<Head(body).v>> ELSE <<>>) \o TagsOf(Tail(body))

ShipitID(c) == TagsOf(c.body)

(***************************************************************************)
(* Repo.Patch(id, dstPrefix) of a repository viewed under pfx: the diffs   *)
(* whose path has the prefix, with the prefix trimmed and dstPrefix        *)
(* joined in front.                                                        *)
(***************************************************************************)
fixPath(pfx, dstPrefix, path) ==
    LET t == TrimPrefix(path, pfx)
    IN  IF dstPrefix # <<>> THEN Join(dstPrefix, t) ELSE t

\* every diff of the commit kept, whatever its path
PatchDiffs_All(pfx, dstPrefix, files) ==
    [k \in 1..Len(files) |-> Diff(fixPath(pfx, dstPrefix, files[k].Path), files[k].Body)]

RECURSIVE PatchDiffs(_, _, _)
PatchDiffs(pfx, dstPrefix, files) ==
    IF files = <<>> THEN <<>>
    ELSE LET d == Head(files)
             rest == PatchDiffs(pfx, dstPrefix, Tail(files))
         IN  IF HasPrefix(d.Path, pfx)
             THEN <<Diff(fixPath(pfx, dstPrefix, d.Path), d.Body)>> \o rest
             ELSE rest

Patch(pfx, c, dstPrefix) ==
    [ID |-> c.id, Subject |-> c.subject, Body |-> c.body,
     Diffs |-> PatchDiffs(pfx, dstPrefix, c.files)]

\* Step 1 accepting any commit that carries a trailer
isCommitApplicable_Always(r, c, pfx) == TRUE

(***************************************************************************)
(* rules.isCommitApplicable(c, repo): the commit is not stripped and at    *)
(* least one diff of its patch, derived with no destination prefix, is not *)
(* path-stripped.                                                          *)
(***************************************************************************)
isCommitApplicable(r, c, pfx) ==
    IF isStripped(r, c) THEN FALSE
    ELSE LET p == Patch(pfx, c, <<>>)
         IN  \E k \in 1..Len(p.Diffs) : ~isPathStripped(r, p.Diffs[k].Path)

(***************************************************************************)
(* Repo.Log.  git limits the log to the commits that touch the prefix,     *)
(* when there is one, and prints the newest commit first.                  *)
(***************************************************************************)
TouchesPrefix(c, pfx) ==
    pfx = <<>> \/ \E k \in 1..Len(c.files) : HasPrefix(c.files[k].Path, pfx)

\* the words of git's "fatal: ambiguous argument '...': unknown revision or
\* path not in the working tree."
AmbiguousArgument ==
    <<"unknown", "revision", "or", "path", "not", "in", "the", "working", "tree">>

\* the checkout has a file under the prefix
PathInTree(hist, pfx) ==
    pfx = <<>> \/ \E j \in 1..Len(hist) : \E k \in 1..Len(hist[j].files) :
                      HasPrefix(hist[j].files[k].Path, pfx)

\* the error of git log <revision> <prefix>, <<>> if it succeeds: an argument
\* that is neither a revision nor a path of the working tree is ambiguous
GitLogError(hist, pfx, revKnown) ==
    IF ~revKnown \/ ~PathInTree(hist, pfx) THEN AmbiguousArgument ELSE <<>>

\* strings.Contains(err.Error(), "path not in the working tree"): Log returns
\* nil, nil
LogSwallows(err) == Contains(err, <<"path", "not", "in", "the", "working", "tree">>)

\* --grep '^\s*\(fb\)\?shipit-source-id: [a-z0-9]\+$': a trailer line
GrepShipit(c) == \E k \in 1..Len(c.body) : c.body[k].k = "tag"

\* Log("-1", "--grep", ..., head): the index of the newest commit at or
\* below head that matches, 0 if there is none.  head = 0 stands for the
\* parent of the root commit: git fails with "unknown revision or path not
\* in the working tree", which Log turns into the empty result.
LogGrep(hist, pfx, h) ==
    LET S == {j \in 1..h : GrepShipit(hist[j]) /\ TouchesPrefix(hist[j], pfx)}
    IN  IF LogSwallows(GitLogError(hist, pfx, h > 0)) \/ S = {} THEN 0
        ELSE CHOOSE j \in S : \A m \in S : m <= j

\* the commits of hist with index above from, newest first
RECURSIVE LogAbove(_, _, _)
LogAbove(hist, pfx, from) ==
    IF Len(hist) <= from THEN <<>>
    ELSE LET c == hist[Len(hist)]
             rest == LogAbove(SubSeq(hist, 1, Len(hist) - 1), pfx, from)
         IN  IF TouchesPrefix(c, pfx) THEN <<c>> \o rest ELSE rest

\* a log of the newest commit only
LogAll_Newest(hist, pfx) ==
    IF LogAbove(hist, pfx, 0) = <<>> THEN <<>> ELSE <<Head(LogAbove(hist, pfx, 0))>>

\* Log("--no-merges")
LogAll(hist, pfx) ==
    IF LogSwallows(GitLogError(hist, pfx, TRUE)) THEN <<>> ELSE LogAbove(hist, pfx, 0)

\* Log(newestID + "..master", "--ancestry-path", "--no-merges"): the commits
\* after the one newestID abbreviates; if it names no commit git fails with
\* "unknown revision or path not in the working tree" and Log returns
\* nothing.
LogRange(hist, pfx, newestID) ==
    LET S == {j \in 1..Len(hist) : HasPrefix(Hex(hist[j].id), newestID)}
    IN  IF LogSwallows(GitLogError(hist, pfx, S # {})) THEN <<>>
        ELSE LogAbove(hist, pfx, CHOOSE j \in S : TRUE)

\* Step 3 without the test of the trailer
FilterCommits_KeepCopies(r, raw) == SelectSeq(raw, LAMBDA c : ~isStripped(r, c))

\* Step 3 without the test of the strip-commit rules
FilterCommits_KeepStripped(r, raw) == SelectSeq(raw, LAMBDA c : Len(ShipitID(c)) = 0)

(***************************************************************************)
(* Step 3 of main: drop the candidates that are copies or are stripped.    *)
(***************************************************************************)
RECURSIVE FilterCommits(_, _)
FilterCommits(r, raw) ==
    IF raw = <<>> THEN <<>>
    ELSE LET c == Head(raw)
             rest == FilterCommits(r, Tail(raw))
         IN  IF Len(ShipitID(c)) > 0 THEN rest
             ELSE IF isStripped(r, c) THEN rest
             ELSE <<c>> \o rest

(***************************************************************************)
(* Step 4 of main, for one commit: the trailer, the path rules, the        *)
(* message rule.                                                           *)
(***************************************************************************)
shipitTag(p) == TagLine(Short(Hex(p.ID)))

\* the trailer put in front of the body
TaggedBody_TrailerFirst(p) ==
    <<shipitTag(p)>> \o (IF p.Body # <<>> THEN <<BlankLine>> \o p.Body ELSE <<>>)

TaggedBody(p) ==
    (IF p.Body # <<>> THEN p.Body \o <<BlankLine>> ELSE <<>>) \o <<shipitTag(p)>>

RECURSIVE KeptDiffs(_, _)
KeptDiffs(r, diffs) ==
    IF diffs = <<>> THEN <<>>
    ELSE (IF isPathStripped(r, Head(diffs).Path) THEN <<>> ELSE <<Head(diffs)>>)
             \o KeptDiffs(r, Tail(diffs))

\* the message rule taken over every diff of the patch, the path-stripped
\* ones included
stripMessage_AllDiffs(r, diffs) ==
    \A k \in 1..Len(diffs) : isMessagePathStripped(r, diffs[k].Path)

stripMessage(r, diffs) ==
    \A k \in 1..Len(diffs) :
        isPathStripped(r, diffs[k].Path) \/ isMessagePathStripped(r, diffs[k].Path)

\* the patch main applies or dumps for source commit c
Transform(r, srcPfx, dstPfx, c) ==
    LET p == Patch(srcPfx, c, dstPfx)
        kept == KeptDiffs(r, p.Diffs)
    IN  IF stripMessage(r, p.Diffs)
        THEN [ID |-> p.ID, Subject |-> "Stripped commit",
              Body |-> <<StubLine, BlankLine, shipitTag(p)>>, Diffs |-> kept]
        ELSE [ID |-> p.ID, Subject |-> p.Subject, Body |-> TaggedBody(p),
              Diffs |-> kept]

(***************************************************************************)
(* Large objects.                                                          *)
(***************************************************************************)
\* a test that finds the oid only at the beginning of a diff body
MaybeContainsLFSPointer_Prefix(p) ==
    \E k \in 1..Len(p.Diffs) : HasPrefix(p.Diffs[k].Body, <<"o", "i", "d">>)

MaybeContainsLFSPointer(p) ==
    \E k \in 1..Len(p.Diffs) : Contains(p.Diffs[k].Body, <<"o", "i", "d">>)

Paths(p) == {p.Diffs[k].Path : k \in 1..Len(p.Diffs)}

\* the paths git lfs ls-files prints for the checkout: its pointer files
PointerFiles(hist) ==
    UNION { {hist[j].files[k].Path :
                k \in {m \in 1..Len(hist[j].files) :
                          Contains(hist[j].files[m].Body, <<"o", "i", "d">>)}} :
            j \in 1..Len(hist) }

RECURSIVE SeqOfPaths(_)
SeqOfPaths(S) ==
    IF S = {} THEN <<>>
    ELSE LET q == CHOOSE x \in S : \A y \in S : Len(x) <= Len(y)
         IN  <<q>> \o SeqOfPaths(S \ {q})

\* Repo.ListLFSPointers: the pointer files inside the prefix, relative to it
ListLFSPointers(hist, pfx) ==
    SeqOfPaths({TrimPrefix(q, pfx) : q \in {x \in PointerFiles(hist) : HasPrefix(x, pfx)}})

(***************************************************************************)
(* The sync run: main().                                                   *)
(***************************************************************************)
NoPatch == [ID |-> 0, Subject |-> "", Body |-> <<>>, Diffs |-> <<>>]
NoRun == [src |-> 0, dst |-> 0, push |-> FALSE, dump |-> FALSE]
NoPrev == [src |-> 0, dst |-> 0, ok |-> FALSE, partial |-> FALSE]

Event(op, id, arg) == [op |-> op, id |-> id, arg |-> arg]

InitialCommit(u) == [id |-> u, files |-> <<>>, subject |-> "initial commit", body |-> <<>>]

\* a root commit that is itself a copy: it carries a trailer
TaggedRoot(u) == [InitialCommit(u) EXCEPT !.body = <<TagLine(ForeignID)>>]

NoRules(r) == r.strip = <<>> /\ r.stripMessagePaths = <<>> /\ r.stripCommits = <<>>

\* The rule sets of the model: at most one kind of rule, or a path rule
\* together with a commit rule or with a message rule.
RuleSets ==
    { r \in [strip : StripMenu, stripMessagePaths : StripMessageMenu,
              stripCommits : StripCommitMenu] :
        \/ Cardinality({k \in {"strip", "stripMessagePaths", "stripCommits"} : r[k] # <<>>}) <= 1
        \/ /\ r.strip = <<Re(TRUE, <<"B">>, TRUE)>>
           /\ r.stripMessagePaths = <<>>
           /\ r.stripCommits = <<Short(Hex(FirstDevId))>>
        \/ /\ r.strip = <<Re(TRUE, <<"B">>, TRUE)>>
           /\ r.stripMessagePaths # <<>>
           /\ r.stripCommits = <<>> }

\* the histories the runs start from: every branch has its root commit; in
\* the second the root commit of the last url carries a trailer
RootMenu(r) ==
    {[u \in URLs |-> <<InitialCommit(u)>>]}
        \cup (IF NoRules(r)
              THEN {[u \in URLs |-> <<IF u = Cardinality(URLs) THEN TaggedRoot(u)
                                      ELSE InitialCommit(u)>>]}
              ELSE {})

SyncInit ==
    /\ local = [u \in URLs |-> <<>>]
    /\ prefix \in {f \in [URLs -> {NoPrefix, DirPrefix}] : f[1] = NoPrefix \/ f[2] = DirPrefix}
    /\ rules \in RuleSets
    /\ remote \in RootMenu(rules)
    /\ mode \in {"push", "dump", "plain"}
    /\ \A k \in 1..Len(rules.stripCommits) : ValidStripCommit(rules.stripCommits[k])
    /\ nextId = Cardinality(URLs) + 1
    /\ nevents = 0
    /\ ndev = 0
    /\ pc = "idle"
    /\ cfg = NoRun
    /\ head = 0
    /\ lastCommit = 0
    /\ commits = <<>>
    /\ i = 0
    /\ ncommit = 0
    /\ patch = NoPatch
    /\ ptrs = <<>>
    /\ trace = <<>>
    /\ prev = NoPrev
    /\ unsynced = [s \in URLs |-> [d \in URLs |-> FALSE]]

\* A developer commits to the branch at url u and pushes.
DevCommit(u) ==
    /\ pc = "idle"
    /\ nevents + 1 < MaxEvents      \* a run may still follow
    /\ ndev < MaxCommits
    /\ ndev' = ndev + 1
    /\ \E m \in CommitMenu(prefix[u], rules.strip # <<>> \/ rules.stripMessagePaths # <<>>,
                            rules.strip = <<>> /\ rules.stripMessagePaths = <<>>
                                /\ nextId > Cardinality(URLs) + 1) :
          remote' = [remote EXCEPT ![u] = Append(@,
              [id |-> nextId, files |-> m.files, subject |-> "s", body |-> m.body])]
    /\ nextId' = nextId + 1
    /\ nevents' = nevents + 1
    /\ prev' = NoPrev
    /\ unsynced' = [unsynced EXCEPT ![u] = [d \in URLs |-> TRUE]]
    /\ UNCHANGED <<local, prefix, rules, mode, pc, cfg, head, lastCommit, commits,
                   i, ncommit, patch, ptrs, trace>>
    /\ UNCHANGED <<lockVars, pureVars>>

\* git.Open of a url: fetch and reset --hard FETCH_HEAD
Open(u) == remote[u]

\* main up to Step 1: the flags are checked, both repositories are opened.
Start(s, d) ==
    /\ pc = "idle"
    /\ nevents < MaxEvents
    /\ s # d
    /\ nevents' = nevents + 1
    /\ cfg' = [src |-> s, dst |-> d, push |-> mode = "push", dump |-> mode = "dump"]
    /\ local' = [local EXCEPT ![s] = Open(s), ![d] = Open(d)]
    /\ head' = Len(Open(d))
    /\ lastCommit' = 0
    /\ commits' = <<>>
    /\ i' = 0
    /\ ncommit' = 0
    /\ patch' = NoPatch
    /\ ptrs' = <<>>
    /\ trace' = <<>>
    /\ pc' = "locate"
    /\ UNCHANGED <<remote, prefix, rules, mode, nextId, ndev, prev, unsynced>>
    /\ UNCHANGED <<lockVars, pureVars>>

\* a walk that restarts at the rejected candidate itself
Parent_Same(j) == j

\* head = last[0].Digest.Hex() + "^": the parent of the rejected candidate
Parent(j) == j - 1

\* Step 1, one iteration of the loop over head.
Locate ==
    /\ pc = "locate"
    /\ LET hist == local[cfg.dst]
           j == LogGrep(hist, prefix[cfg.dst], head)
       IN  IF j = 0
           THEN /\ lastCommit' = 0
                /\ pc' = "range"
                /\ head' = head
           ELSE IF isCommitApplicable(rules, hist[j], prefix[cfg.dst])
           THEN /\ lastCommit' = j
                /\ pc' = "range"
                /\ head' = head
           ELSE /\ head' = Parent(j)
                /\ UNCHANGED <<lastCommit, pc>>
    /\ UNCHANGED <<remote, local, prefix, rules, mode, nextId, nevents, ndev, cfg,
                   commits, i, ncommit, patch, ptrs, trace, prev, unsynced>>
    /\ UNCHANGED <<lockVars, pureVars>>

\* the range taken from the first trailer of lastCommit
NewestID_First(ids) == ids[1]

\* newestID := ids[len(ids)-1]
NewestID(ids) == ids[Len(ids)]

\* Step 2: the candidates.
ComputeRange ==
    /\ pc = "range"
    /\ LET src == local[cfg.src]
           ids == ShipitID(local[cfg.dst][lastCommit])
       IN  IF lastCommit = 0
           THEN /\ commits' = LogAll(src, prefix[cfg.src])
                /\ pc' = "filter"
           ELSE IF Len(ids) = 0
           THEN /\ commits' = <<>>
                /\ pc' = "fatal"
           ELSE /\ commits' = LogRange(src, prefix[cfg.src], NewestID(ids))
                /\ pc' = "filter"
    /\ UNCHANGED <<remote, local, prefix, rules, mode, nextId, nevents, ndev, cfg, head,
                   lastCommit, i, ncommit, patch, ptrs, trace, prev, unsynced>>
    /\ UNCHANGED <<lockVars, pureVars>>

\* the loop started at the first element of the log, the newest commit
FirstIndex_Newest(cs) == IF cs = <<>> THEN 0 ELSE 1

\* for i := len(commits) - 1; i >= 0; i-- (indices here start at 1)
FirstIndex(cs) == Len(cs)

\* Step 3: the copies and the stripped commits are removed.
Filter ==
    /\ pc = "filter"
    /\ commits' = FilterCommits(rules, commits)
    /\ i' = FirstIndex(commits')
    /\ pc' = "loop"
    /\ UNCHANGED <<remote, local, prefix, rules, mode, nextId, nevents, ndev, cfg, head,
                   lastCommit, ncommit, patch, ptrs, trace, prev, unsynced>>
    /\ UNCHANGED <<lockVars, pureVars>>

\* a patch with no diff that is never skipped
SkipPatch_Never(p) == FALSE

\* len(diffs) == 0: "skipping empty patch"
SkipPatch(p) == Len(p.Diffs) = 0

\* a run that applies the patch whether or not -dump is given
PatchGoesTo_Apply(run) == "apply"

\* if *dump { patch.Write(os.Stdout) } else { dst.Apply(patch) ... }
PatchGoesTo(run) == IF run.dump THEN "dump" ELSE "apply"

\* Step 4: the patch of commits[i] is derived and transformed; an empty
\* patch is skipped, any other is counted.
DerivePatch ==
    /\ pc = "loop"
    /\ i > 0
    /\ LET p == Transform(rules, prefix[cfg.src], prefix[cfg.dst], commits[i])
       IN  /\ trace' = Append(trace, Event("patch", p.ID, <<>>))
           /\ IF SkipPatch(p)
              THEN /\ i' = i - 1
                   /\ UNCHANGED <<ncommit, patch, pc>>
              ELSE /\ ncommit' = ncommit + 1
                   /\ patch' = p
                   /\ pc' = PatchGoesTo(cfg)
                   /\ i' = i
    /\ UNCHANGED <<remote, local, prefix, rules, mode, nextId, nevents, ndev, cfg, head,
                   lastCommit, commits, ptrs, prev, unsynced>>
    /\ UNCHANGED <<lockVars, pureVars>>

\* patch.Write(os.Stdout)
Dump ==
    /\ pc = "dump"
    /\ trace' = Append(trace, Event("dump", patch.ID, <<>>))
    /\ i' = i - 1
    /\ pc' = "loop"
    /\ UNCHANGED <<remote, local, prefix, rules, mode, nextId, nevents, ndev, cfg, head,
                   lastCommit, commits, ncommit, patch, ptrs, prev, unsynced>>
    /\ UNCHANGED <<lockVars, pureVars>>

\* dst.Apply(patch) succeeds: git am commits the patch to the checkout.
Apply ==
    /\ pc = "apply"
    /\ LET c == [id |-> nextId, files |-> patch.Diffs, subject |-> patch.Subject,
                 body |-> patch.Body]
           hist == Append(local[cfg.dst], c)
       IN  /\ local' = [local EXCEPT ![cfg.dst] = hist]
           /\ IF MaybeContainsLFSPointer(patch)
              THEN /\ ptrs' = ListLFSPointers(hist, prefix[cfg.dst])
                   /\ pc' = "lfs"
                   /\ i' = i
              ELSE /\ ptrs' = <<>>
                   /\ pc' = "loop"
                   /\ i' = i - 1
    /\ nextId' = nextId + 1
    /\ trace' = Append(trace, Event("apply", patch.ID, <<>>))
    /\ UNCHANGED <<remote, prefix, rules, mode, nevents, ndev, cfg, head, lastCommit,
                   commits, ncommit, patch, prev, unsynced>>
    /\ UNCHANGED <<lockVars, pureVars>>

\* a failed dst.Apply that is logged, the run going on with the next commit
ApplyFails_Continue ==
    /\ pc = "apply"
    /\ pc' = "loop"
    /\ i' = i - 1
    /\ trace' = Append(trace, Event("fail", patch.ID, "apply"))
    /\ UNCHANGED <<remote, local, prefix, rules, mode, nextId, nevents, ndev, cfg, head,
                   lastCommit, commits, ncommit, patch, ptrs, prev, unsynced>>
    /\ UNCHANGED <<lockVars, pureVars>>

\* dst.Apply(patch) fails: log.Fatalf
ApplyFails ==
    /\ pc = "apply"
    /\ pc' = "fatal"
    /\ trace' = Append(trace, Event("fail", patch.ID, "apply"))
    /\ UNCHANGED <<remote, local, prefix, rules, mode, nextId, nevents, ndev, cfg, head,
                   lastCommit, commits, i, ncommit, patch, ptrs, prev, unsynced>>
    /\ UNCHANGED <<lockVars, pureVars>>

\* one iteration of the loop over ptrs: the pointer is copied if the patch
\* touched it.
CopyLFS ==
    /\ pc = "lfs"
    /\ IF ptrs = <<>>
       THEN /\ i' = i - 1
            /\ pc' = "loop"
            /\ UNCHANGED <<ptrs, trace>>
       ELSE /\ ptrs' = Tail(ptrs)
            /\ trace' = IF Head(ptrs) \in Paths(patch)
                        THEN Append(trace, Event("lfs", patch.ID, Head(ptrs)))
                        ELSE trace
            /\ UNCHANGED <<i, pc>>
    /\ UNCHANGED <<remote, local, prefix, rules, mode, nextId, nevents, ndev, cfg, head,
                   lastCommit, commits, ncommit, patch, prev, unsynced>>
    /\ UNCHANGED <<lockVars, pureVars>>

\* dst.Log of Step 1 or src.Log of Step 2 returns an error: log.Fatalf
LogFails ==
    /\ pc \in {"locate", "range"}
    /\ pc' = "fatal"
    /\ trace' = Append(trace, Event("fail", 0, "log"))
    /\ UNCHANGED <<remote, local, prefix, rules, mode, nextId, nevents, ndev, cfg, head,
                   lastCommit, commits, i, ncommit, patch, ptrs, prev, unsynced>>
    /\ UNCHANGED <<lockVars, pureVars>>

\* src.Patch returns an error: log.Fatalf
PatchFails ==
    /\ pc = "loop"
    /\ i > 0
    /\ pc' = "fatal"
    /\ trace' = Append(trace, Event("fail", commits[i].id, "patch"))
    /\ UNCHANGED <<remote, local, prefix, rules, mode, nextId, nevents, ndev, cfg, head,
                   lastCommit, commits, i, ncommit, patch, ptrs, prev, unsynced>>
    /\ UNCHANGED <<lockVars, pureVars>>

\* dst.ListLFSPointers or dst.CopyLFSObject returns an error: log.Fatal
LFSFails ==
    /\ pc = "lfs"
    /\ pc' = "fatal"
    /\ trace' = Append(trace, Event("fail", patch.ID, "lfs"))
    /\ UNCHANGED <<remote, local, prefix, rules, mode, nextId, nevents, ndev, cfg, head,
                   lastCommit, commits, i, ncommit, patch, ptrs, prev, unsynced>>
    /\ UNCHANGED <<lockVars, pureVars>>

\* dst.Push returns an error (the large objects or the branch were not
\* pushed): log.Fatalf
PushFails ==
    /\ pc = "loop"
    /\ i = 0
    /\ cfg.push /\ ncommit # 0
    /\ pc' = "fatal"
    /\ trace' = Append(trace, Event("fail", 0, "push"))
    /\ UNCHANGED <<remote, local, prefix, rules, mode, nextId, nevents, ndev, cfg, head,
                   lastCommit, commits, i, ncommit, patch, ptrs, prev, unsynced>>
    /\ UNCHANGED <<lockVars, pureVars>>

\* a Step 5 that pushes whenever push was requested
Push_Always ==
    /\ pc = "loop"
    /\ i = 0
    /\ IF cfg.push
       THEN /\ remote' = [remote EXCEPT ![cfg.dst] = local[cfg.dst]]
            /\ trace' = Append(trace, Event("push", 0, <<>>))
       ELSE UNCHANGED <<remote, trace>>
    /\ pc' = "done"
    /\ UNCHANGED <<local, prefix, rules, mode, nextId, nevents, ndev, cfg, head,
                   lastCommit, commits, i, ncommit, patch, ptrs, prev, unsynced>>
    /\ UNCHANGED <<lockVars, pureVars>>

\* Step 5, after the loop.
Push ==
    /\ pc = "loop"
    /\ i = 0
    /\ IF cfg.push /\ ncommit # 0
       THEN /\ remote' = [remote EXCEPT ![cfg.dst] = local[cfg.dst]]
            /\ trace' = Append(trace, Event("push", 0, <<>>))
       ELSE UNCHANGED <<remote, trace>>
    /\ pc' = "done"
    /\ UNCHANGED <<local, prefix, rules, mode, nextId, nevents, ndev, cfg, head,
                   lastCommit, commits, i, ncommit, patch, ptrs, prev, unsynced>>
    /\ UNCHANGED <<lockVars, pureVars>>

\* the first id no commit of a remote history carries
FreeId == 1 + Cardinality(UNION {{remote[u][k].id : k \in 1..Len(remote[u])} : u \in URLs})

\* the run has applied a commit
SomeApplied == \E k \in 1..Len(trace) : trace[k].op = "apply"

\* The process ends; prev remembers the run, unless it ended fatally before
\* it applied anything.  A run that ended fatally after it applied commits
\* has pushed none of them: it does not count as an event (the run that
\* resumes does), and the ids of the commits it leaves in the checkout,
\* which the next Open discards, are free again.
Exit ==
    /\ pc \in {"done", "fatal"}
    /\ prev' = IF pc = "fatal" /\ ~SomeApplied THEN prev
               ELSE [src |-> cfg.src, dst |-> cfg.dst, ok |-> pc = "done" /\ cfg.push,
                     partial |-> pc = "fatal"]
    /\ nevents' = IF pc = "fatal" /\ SomeApplied THEN nevents - 1 ELSE nevents
    /\ nextId' = IF pc = "fatal" THEN FreeId ELSE nextId
    /\ pc' = "idle"
    /\ cfg' = NoRun
    /\ head' = 0
    /\ lastCommit' = 0
    /\ commits' = <<>>
    /\ i' = 0
    /\ ncommit' = 0
    /\ patch' = NoPatch
    /\ ptrs' = <<>>
    /\ trace' = <<>>
    /\ unsynced' = IF pc = "done" /\ cfg.push
                   THEN [unsynced EXCEPT ![cfg.src][cfg.dst] = FALSE]
                   ELSE unsynced
    /\ UNCHANGED <<remote, local, prefix, rules, mode, ndev>>
    /\ UNCHANGED <<lockVars, pureVars>>

SyncNext ==
    \/ \E u \in URLs : DevCommit(u)
    \/ \E s \in URLs, d \in URLs : Start(s, d)
    \/ Locate
    \/ ComputeRange
    \/ Filter
    \/ DerivePatch
    \/ Dump
    \/ Apply
    \/ ApplyFails
    \/ LogFails
    \/ PatchFails
    \/ LFSFails
    \/ PushFails
    \/ CopyLFS
    \/ Push
    \/ Exit


(***************************************************************************)
(* Concurrent processes: git.Open, flock.Lock, Repo.Close.  Each process   *)
(* is one grit run; it opens its two repositories, works, and closes them. *)
(***************************************************************************)
NumProcs == 2
Procs == 1..NumProcs

\* the urls the processes sync between: those of the first part and one more
LockURLs == URLs \cup {Cardinality(URLs) + 1}

\* the order in which main would open when it opened the source first
OpenOrder_SrcFirst(s, d) == <<s, d>>

\* main: the repositories are opened in url order
OpenOrder(s, d) == IF s < d THEN <<s, d>> ELSE <<d, s>>

\* the url p is opening
Target(p) == OpenOrder(runOf[p].src, runOf[p].dst)[opening[p]]

\* the process exits: the kernel drops the locks it holds
Released(p) == [u \in LockURLs |-> IF lk[u] = p THEN 0 ELSE lk[u]]

\* Open after Lock returned: clone if Stat had found nothing, then fetch
AfterLock(p) == IF statErr[p] THEN "clone" ELSE "fetch"

\* the processes are alike: they are numbered in the order of their runs
RunRank(r) == r.src * (Cardinality(LockURLs) + 1) + r.dst

LockInit ==
    /\ runOf \in [Procs -> {r \in [src : LockURLs, dst : LockURLs] : r.src # r.dst}]
    /\ \A p \in Procs, q \in Procs : p < q => RunRank(runOf[p]) <= RunRank(runOf[q])
    /\ ppc = [p \in Procs |-> "stat"]
    /\ opening = [p \in Procs |-> 1]
    /\ statErr = [p \in Procs |-> FALSE]
    /\ lk = [u \in LockURLs |-> 0]
    /\ checkout \in {[u \in LockURLs |-> b] : b \in BOOLEAN}   \* a new or a used cache
    /\ waited = [p \in Procs |-> FALSE]

\* Open: _, err := os.Stat(path)
OpenStat(p) ==
    /\ ppc[p] = "stat"
    /\ statErr' = [statErr EXCEPT ![p] = ~checkout[Target(p)]]
    /\ ppc' = [ppc EXCEPT ![p] = "lock"]
    /\ UNCHANGED <<runOf, opening, lk, checkout, waited>>
    /\ UNCHANGED <<syncVars, pureVars>>

\* a Lock that succeeds although the lock is held
LockTry_Shared(p) ==
    /\ ppc[p] = "lock"
    /\ ppc' = [ppc EXCEPT ![p] = AfterLock(p)]
    /\ lk' = IF lk[Target(p)] = 0 THEN [lk EXCEPT ![Target(p)] = p] ELSE lk
    /\ UNCHANGED <<runOf, opening, statErr, checkout, waited>>
    /\ UNCHANGED <<syncVars, pureVars>>

\* Lock: syscall.Flock(fd, LOCK_EX|LOCK_NB) takes the lock or finds it held
LockTry(p) ==
    /\ ppc[p] = "lock"
    /\ IF lk[Target(p)] = 0
       THEN /\ lk' = [lk EXCEPT ![Target(p)] = p]
            /\ ppc' = [ppc EXCEPT ![p] = AfterLock(p)]
            /\ UNCHANGED waited
       ELSE /\ ppc' = [ppc EXCEPT ![p] = "wait"]
            /\ waited' = [waited EXCEPT ![p] = TRUE]
            /\ UNCHANGED lk
    /\ UNCHANGED <<runOf, opening, statErr, checkout>>
    /\ UNCHANGED <<syncVars, pureVars>>

\* a Lock that gives up when the lock is held
LockWait_GiveUp(p) ==
    /\ ppc[p] = "wait"
    /\ ppc' = [ppc EXCEPT ![p] = "failed"]
    /\ lk' = Released(p)
    /\ UNCHANGED <<runOf, opening, statErr, checkout, waited>>
    /\ UNCHANGED <<syncVars, pureVars>>

\* Lock: syscall.Flock(fd, LOCK_EX) returns once the lock is free
LockWait(p) ==
    /\ ppc[p] = "wait"
    /\ lk[Target(p)] = 0
    /\ lk' = [lk EXCEPT ![Target(p)] = p]
    /\ ppc' = [ppc EXCEPT ![p] = AfterLock(p)]
    /\ UNCHANGED <<runOf, opening, statErr, checkout, waited>>
    /\ UNCHANGED <<syncVars, pureVars>>

\* git clone ends: it made the checkout, or it found one and failed, and
\* main exits
Clone(p) ==
    /\ ppc[p] = "clone"
    /\ IF checkout[Target(p)]
       THEN /\ ppc' = [ppc EXCEPT ![p] = "clonefailed"]
            /\ lk' = Released(p)
            /\ UNCHANGED checkout
       ELSE /\ checkout' = [checkout EXCEPT ![Target(p)] = TRUE]
            /\ ppc' = [ppc EXCEPT ![p] = "fetch"]
            /\ UNCHANGED lk
    /\ UNCHANGED <<runOf, opening, statErr, waited>>
    /\ UNCHANGED <<syncVars, pureVars>>

\* git fetch, reset --hard and am --abort end; main goes on to its second
\* repository, or to the work
Fetch(p) ==
    /\ ppc[p] = "fetch"
    /\ IF opening[p] = 1
       THEN /\ opening' = [opening EXCEPT ![p] = 2]
            /\ ppc' = [ppc EXCEPT ![p] = "stat"]
       ELSE /\ ppc' = [ppc EXCEPT ![p] = "work"]
            /\ UNCHANGED opening
    /\ UNCHANGED <<runOf, statErr, lk, checkout, waited>>
    /\ UNCHANGED <<syncVars, pureVars>>

\* a git command of Open or of the work fails: log.Fatalf
GitFails(p) ==
    /\ ppc[p] \in {"fetch", "work"}
    /\ ppc' = [ppc EXCEPT ![p] = "failed"]
    /\ lk' = Released(p)
    /\ UNCHANGED <<runOf, opening, statErr, checkout, waited>>
    /\ UNCHANGED <<syncVars, pureVars>>

\* Steps 1 to 5 end; the deferred dst.Close() runs
CloseDst(p) ==
    /\ ppc[p] = "work"
    /\ lk' = [lk EXCEPT ![runOf[p].dst] = 0]
    /\ ppc' = [ppc EXCEPT ![p] = "close"]
    /\ UNCHANGED <<runOf, opening, statErr, checkout, waited>>
    /\ UNCHANGED <<syncVars, pureVars>>

\* the deferred src.Close() runs
CloseSrc(p) ==
    /\ ppc[p] = "close"
    /\ lk' = [lk EXCEPT ![runOf[p].src] = 0]
    /\ ppc' = [ppc EXCEPT ![p] = "done"]
    /\ UNCHANGED <<runOf, opening, statErr, checkout, waited>>
    /\ UNCHANGED <<syncVars, pureVars>>

ProcNext(p) ==
    \/ OpenStat(p)
    \/ LockTry(p)
    \/ LockWait(p)
    \/ Clone(p)
    \/ Fetch(p)
    \/ GitFails(p)
    \/ CloseDst(p)
    \/ CloseSrc(p)

LockNext == \E p \in Procs : ProcNext(p)

(***************************************************************************)
(* rules.rewriteDiff applied to a diff.                                    *)
(***************************************************************************)
StringsUpTo(A, n) == UNION {[1..k -> A] : k \in 0..n}

\* rewrite:<path>:/a/b/, rewrite:<path>:/b/c/ for every path, and
\* rewrite:f$:/b/aa/ for the paths that end in f
RewriteMenu ==
    { RewriteRule(Re(FALSE, <<>>, FALSE), <<"a">>, <<"b">>),
      RewriteRule(Re(FALSE, <<>>, FALSE), <<"b">>, <<"c">>),
      RewriteRule(Re(FALSE, <<"f">>, TRUE), <<"b">>, <<"a", "a">>) }

RewriteInit ==
    /\ rwRules \in StringsUpTo(RewriteMenu, MaxRewrites)
    /\ rwOrig \in {Diff(p, b) : p \in {<<"f">>, <<"B">>},
                                b \in StringsUpTo({"a", "b", "\n"}, MaxBody)}
    /\ rwDiff = rwOrig
    /\ rwDone = FALSE

\* main's diff loop calls rules.rewriteDiff(&diff) for a surviving diff
RewriteDiff ==
    /\ ~rwDone
    /\ rwDiff' = rewriteDiff(rwRules, rwDiff)
    /\ rwDone' = TRUE
    /\ UNCHANGED <<rwRules, rwOrig>>
    /\ UNCHANGED <<envVars, cl, repoOp>>
    /\ UNCHANGED <<syncVars, lockVars>>

RewriteNext == RewriteDiff

(***************************************************************************)
(* The round trip of a patch: parsePatchHeader, Patch.Write and            *)
(* parsePatchHeader again.                                                 *)
(***************************************************************************)
MailAddr == <<"a", "@", "b">>

\* From lines: of two commits, one without a second field, one whose
\* second field is no digest
FromLines ==
    {<<"From", Hex(n), "Mon", "Sep", "17", "00:00:00", "2001">> : n \in URLs}
        \cup {<<"From">>, <<"From", <<"z">>>>}

\* From headers: a name as a phrase or as a quoted string, no name, a bare
\* address, two addresses, a name without an address, and nothing
AuthorValues ==
    {n \o <<" ", "<">> \o MailAddr \o <<">">> : n \in {<<"n">>, <<"n", " ", "n">>}}
        \cup {AddressString(Address(n, MailAddr)) :
                  n \in {<<>>, <<"n">>, <<"n", " ", "n">>, <<"n", "\"">>}}
        \cup {MailAddr, MailAddr \o <<",", " ">> \o MailAddr, <<"n", " ", "n">>, <<>>}

\* Date headers: with and without seconds, in three zones, and one that
\* is no date
DateValues ==
    {d \in [ok : {TRUE}, wd : {TRUE}, min : {0, 1}, hasSec : BOOLEAN, sec : {0, 1},
             zone : {-7, 0, 1}] : ~d.hasSec => d.sec = 0}
        \cup {[ok |-> FALSE, wd |-> FALSE, min |-> 0, hasSec |-> FALSE, sec |-> 0, zone |-> 0]}

\* Subject headers: plain, folded over two lines, with spaces around and
\* inside, and empty
SubjectValues ==
    { <<"s">>, <<"s", " ", "s">>, <<" ", "s">>, <<"s", " ">>, <<"s", " ", " ", "s">>,
      <<"s", "\n", " ", "s">>, <<>> }

\* bodies: empty, a line of text, and lines that begin like a diff, as the
\* first line and as a later one
BodyValues == { <<>>, <<"t">>, <<"t", "diff">>, <<"diff">>, <<"t", "---", "+++">> }

NoText == [from |-> <<>>, author |-> <<>>,
           date |-> [ok |-> FALSE, wd |-> FALSE, min |-> 0, hasSec |-> FALSE, sec |-> 0,
                     zone |-> 0],
           subject |-> <<>>, body |-> <<>>]

DiffLine(path) == <<"diff", "--git", "a/", path, "b/", path>>

HunkLines == << <<"@@">>, <<"+", "t">> >>

\* the output of format-patch --format=: no section, one, two, text before
\* the first section, and sections whose first line is not diff --git
\* a/<path>: as the only section, as the first and as the last of two
DiffValues ==
    { <<>>,
      <<DiffLine("f")>> \o HunkLines,
      <<DiffLine("f")>> \o HunkLines \o <<DiffLine("g")>> \o HunkLines,
      << <<"t">> >> \o <<DiffLine("f")>> \o HunkLines,
      << <<"diff", "--cc", "f">> >> \o HunkLines,
      << <<"diff", "--git", "a/">> >> \o HunkLines \o <<DiffLine("g")>> \o HunkLines,
      <<DiffLine("f")>> \o HunkLines \o << <<"diff", "--cc", "g">> >> \o HunkLines }

\* the texts parsed: every envelope with one section, and every From line,
\* From header and Subject header with every value of the sections
RawValues ==
    [from : FromLines, author : AuthorValues, date : DateValues,
     subject : SubjectValues, body : BodyValues, diffs : {<<DiffLine("f")>> \o HunkLines}]
      \cup
    [from : FromLines, author : AuthorValues,
     date : {[ok |-> TRUE, wd |-> TRUE, min |-> 0, hasSec |-> TRUE, sec |-> 0, zone |-> 0]},
     subject : SubjectValues, body : {<<"t">>}, diffs : DiffValues]

EnvelopeInit ==
    /\ envRaw \in RawValues
    /\ envPatch = NoEnvelope
    /\ envText = NoText
    /\ envBack = NoEnvelope
    /\ envPc = "raw"

\* the header and the sections of the text are parsed
ParseHeader ==
    /\ envPc = "raw"
    /\ LET r == PatchFromText(envRaw)
       IN  /\ envPatch' = r.p
           /\ envPc' = IF r.err = "" THEN "parsed" ELSE "error"
    /\ UNCHANGED <<envRaw, envText, envBack>>
    /\ UNCHANGED <<rwVars, cl, repoOp>>
    /\ UNCHANGED <<syncVars, lockVars>>

\* patch.Write(&buf)
WriteOut ==
    /\ envPc = "parsed"
    /\ envText' = Write(envPatch)
    /\ envPc' = "written"
    /\ UNCHANGED <<envRaw, envPatch, envBack>>
    /\ UNCHANGED <<rwVars, cl, repoOp>>
    /\ UNCHANGED <<syncVars, lockVars>>

\* parsePatchHeader(buf.Bytes())
ParseWritten ==
    /\ envPc = "written"
    /\ LET r == parsePatchHeader(envText)
       IN  /\ envBack' = r.p
           /\ envPc' = IF r.err = "" THEN "back" ELSE "roundtrip failed"
    /\ UNCHANGED <<envRaw, envPatch, envText>>
    /\ UNCHANGED <<rwVars, cl, repoOp>>
    /\ UNCHANGED <<syncVars, lockVars>>

EnvelopeNext == ParseHeader \/ WriteOut \/ ParseWritten

(***************************************************************************)
(* main from the command line to the opening of the repositories.  A rule  *)
(* of the command line is a sequence of lexemes: the word of its kind,     *)
(* ":" and the characters of its argument.  regexp.Compile fails on an     *)
(* expression with a parenthesis that is not closed.                       *)
(***************************************************************************)
\* strings.SplitN(s, sep, 2)
SplitN2(str, sep) ==
    LET k == IndexOf(str, sep)
    IN  IF k = 0 THEN <<str>> ELSE <<SubSeq(str, 1, k - 1), SubSeq(str, k + 1, Len(str))>>

\* strings.Split(s, sep)
RECURSIVE SplitOn(_, _)
SplitOn(str, sep) ==
    LET k == IndexOf(str, sep)
    IN  IF k = 0 THEN <<str>>
        ELSE <<SubSeq(str, 1, k - 1)>> \o SplitOn(SubSeq(str, k + 1, Len(str)), sep)

\* regexp.Compile(e) returns no error
Compiles(e) ==
    Cardinality({k \in 1..Len(e) : e[k] = "("}) = Cardinality({k \in 1..Len(e) : e[k] = ")"})

\* parseSpec: url[,prefix[,branch]]
parseSpec(spec) ==
    LET parts == SplitOn(spec, ",")
    IN  [ok |-> Len(parts) <= 3, url |-> parts[1],
         prefix |-> IF Len(parts) >= 2 THEN parts[2] ELSE <<>>,
         branch |-> IF Len(parts) >= 3 THEN parts[3] ELSE <<"master">>]

\* parseRewriteRule(rule) ends in log.Fatalf
RewriteRuleFails(rule) ==
    LET parts == SplitN2(rule, ":")
    IN  \/ Len(parts) # 2
        \/ ~Compiles(parts[1])
        \/ Len(parts[2]) < 3
        \/ LET sub == SplitOn(Tail(parts[2]), Head(parts[2]))
           IN  \/ Len(sub) # 3
               \/ sub[3] # <<>>
               \/ ~Compiles(sub[1])

\* a strip-commit rule of any length and with any digits let through
StripCommitFails_Never(hash) == FALSE

\* main's validation of the argument of a strip-commit rule ends in
\* log.Fatalf
StripCommitFails(hash) == ~ValidStripCommit(hash)

\* one iteration of main's loop over the rules ends in log.Fatalf
RuleFails(rule) ==
    LET parts == SplitN2(rule, ":")
    IN  IF Len(parts) # 2 THEN TRUE
        ELSE CASE parts[1] = <<"strip">> -> ~Compiles(parts[2])
               [] parts[1] = <<"strip-message">> -> ~Compiles(parts[2])
               [] parts[1] = <<"strip-commit">> -> StripCommitFails(parts[2])
               [] parts[1] = <<"rewrite">> -> RewriteRuleFails(parts[2])
               [] OTHER -> TRUE

\* the exit status of main before it opens a repository: 2 from usage(),
\* 1 from log.Fatalf, 0 if it goes on
Validate(args) ==
    IF args.push /\ args.dump THEN 2
    ELSE IF ~parseSpec(args.src).ok \/ ~parseSpec(args.dst).ok THEN 1
    ELSE IF parseSpec(args.src).url = parseSpec(args.dst).url THEN 2
    ELSE IF \E k \in 1..Len(args.rules) : RuleFails(args.rules[k]) THEN 1
    ELSE 0

SpecValues == { <<"A">>, <<"B">>, <<"A", ",", "p">> }

\* rules that main accepts
GoodRules ==
    { <<"strip", ":", "^", "B", "$">>,
      <<"strip-message", ":", "f", "$">>,
      <<"strip-commit", ":">> \o Short(Hex(FirstDevId)),
      <<"strip-commit", ":">> \o UpperHex(Short(Hex(FirstDevId))),
      <<"rewrite", ":", "f", ":", "/", "a", "/", "b", "/">> }

\* rules that main rejects: no kind, an unknown kind, expressions that do
\* not compile, rewrite rules not of the form pathre:/from/to/, commit
\* prefixes that are short or have a digit that is not hex
BadRules ==
    { <<"strip">>,
      <<"keep", ":", "B">>,
      <<"strip", ":", "(", "B">>,
      <<"strip-message", ":", "(", "f">>,
      <<"rewrite", ":", "f">>,
      <<"rewrite", ":", "f", ":", "/", "a">>,
      <<"rewrite", ":", "f", ":", "/", "a", "/", "b">>,
      <<"rewrite", ":", "(", ":", "/", "a", "/", "b", "/">>,
      <<"rewrite", ":", "f", ":", "/", "(", "/", "b", "/">>,
      <<"strip-commit", ":">> \o SubSeq(Hex(FirstDevId), 1, ShortLen - 1),
      <<"strip-commit", ":">> \o SubSeq(Hex(FirstDevId), 1, ShortLen - 1) \o <<"g">> }

NoCommandLine == [push |-> FALSE, dump |-> FALSE, src |-> <<"A">>, dst |-> <<"B">>,
                  rules |-> <<>>]

CommandInit ==
    \E args \in [push : BOOLEAN, dump : BOOLEAN, src : SpecValues, dst : SpecValues,
                 rules : StringsUpTo(GoodRules \cup BadRules, MaxRules)] :
        cl = [args |-> args, pc |-> "start", exit |-> 0, ops |-> <<>>]

\* main up to the log line "synchronizing repo": the flags, the specs and
\* the rules are checked
ParseArgs ==
    /\ cl.pc = "start"
    /\ cl' = [cl EXCEPT !.exit = Validate(cl.args),
                        !.pc = IF Validate(cl.args) = 0 THEN "open" ELSE "exit"]
    /\ UNCHANGED <<rwVars, envVars, repoOp>>
    /\ UNCHANGED <<syncVars, lockVars>>

\* the two calls of open, the smaller url first
OpenRepos ==
    /\ cl.pc = "open"
    /\ LET s == parseSpec(cl.args.src).url
           d == parseSpec(cl.args.dst).url
           srcFirst == s = <<"A">>        \* srcURL < dstURL
       IN  cl' = [cl EXCEPT !.pc = "opened",
                            !.ops = IF srcFirst THEN <<<<"open", s>>, <<"open", d>>>>
                                    ELSE <<<<"open", d>>, <<"open", s>>>>]
    /\ UNCHANGED <<rwVars, envVars, repoOp>>
    /\ UNCHANGED <<syncVars, lockVars>>

CommandNext == ParseArgs \/ OpenRepos

(***************************************************************************)
(* The operations of a Repo, one at a time.                                *)
(*                                                                         *)
(* Repo.Patch, from the sections of format-patch to the diffs.  A section  *)
(* is what git prints for one file: the text after "diff --git a/" (the    *)
(* path, " b/" and the path again), the lines of Meta and the Body.  A     *)
(* line of Meta is [pre, rest]: pre is "--- a/" or "+++ b/" if the line    *)
(* begins so, else "", and rest is the rest of the line.  git puts a tab   *)
(* after a path with a space on its --- and +++ lines.                     *)
(***************************************************************************)
MetaLine(pre, rest) == [pre |-> pre, rest |-> rest]

HasSpace(path) == \E k \in 1..Len(path) : path[k] = " "

\* the name on a --- or +++ line
MetaName(path) == IF HasSpace(path) THEN path \o <<"\t">> ELSE path

\* what git format-patch prints for a file that is added, modified or deleted
GitSection(path, change) ==
    [header |-> path \o <<" ", "b", "/">> \o path,
     Meta |-> CASE change = "add" ->
                     << MetaLine("", <<"new file mode 100644">>),
                        MetaLine("", <<"index 0000000..587be6b">>),
                        MetaLine("", <<"--- /dev/null">>),
                        MetaLine("+++ b/", MetaName(path)) >>
                [] change = "delete" ->
                     << MetaLine("", <<"deleted file mode 100644">>),
                        MetaLine("", <<"index 587be6b..0000000">>),
                        MetaLine("--- a/", MetaName(path)),
                        MetaLine("", <<"+++ /dev/null">>) >>
                [] OTHER ->
                     << MetaLine("", <<"index 587be6b..0fa1c2d 100644">>),
                        MetaLine("--- a/", MetaName(path)),
                        MetaLine("+++ b/", MetaName(path)) >>,
     Body |-> <<"@@", "+t">>]

\* diffHeaderRe, ^diff --git a/([^ ]+): the text up to the first space
HeaderPath(header) ==
    IF IndexOf(header, " ") = 0 THEN header ELSE SubSeq(header, 1, IndexOf(header, " ") - 1)

\* the loop over meta: the path of a --- a/ or +++ b/ line is fixed, every
\* other line is copied
FixMeta(pfx, dstPrefix, meta) ==
    [k \in 1..Len(meta) |->
        IF meta[k].pre \in {"--- a/", "+++ b/"}
        THEN MetaLine(meta[k].pre, fixPath(pfx, dstPrefix, meta[k].rest))
        ELSE meta[k]]

\* Repo.Patch for one section: the diff is kept if its path has the prefix
PatchSection(pfx, dstPrefix, sect) ==
    LET path == HeaderPath(sect.header)
    IN  [kept |-> HasPrefix(path, pfx),
         diff |-> [Path |-> fixPath(pfx, dstPrefix, path),
                   Meta |-> FixMeta(pfx, dstPrefix, sect.Meta),
                   Body |-> sect.Body]]

\* the files of a commit: inside and outside of the prefix p/, with and
\* without a space in the name
PathValues ==
    { <<"f">>, <<"p", "/", "f">>, <<"p", "/", "m", " ", "f">>, <<"m", " ", "f">> }

PatchOps ==
    [kind : {"patch"}, pc : {"start"}, pfx : {NoPrefix, DirPrefix},
     dstPrefix : {NoPrefix, <<"d", "/">>}, path : PathValues,
     change : {"add", "modify", "delete"}, kept : {FALSE},
     diff : {[Path |-> <<>>, Meta |-> <<>>, Body |-> <<>>]}]

\* r.Patch(id, dstPrefix) of a commit that changes one file
RepoPatch ==
    /\ repoOp.kind = "patch" /\ repoOp.pc = "start"
    /\ LET r == PatchSection(repoOp.pfx, repoOp.dstPrefix, GitSection(repoOp.path, repoOp.change))
       IN  repoOp' = [repoOp EXCEPT !.pc = "done", !.kept = r.kept, !.diff = r.diff]
    /\ UNCHANGED <<rwVars, envVars, cl>>
    /\ UNCHANGED <<syncVars, lockVars>>

(***************************************************************************)
(* Repo.Apply.  hist is the history of the checkout, cmds the git commands *)
(* that were run, gitOk whether git am succeeds.                           *)
(***************************************************************************)
\* an Apply that hands every patch to git am
ApplyReturnsEarly_Never(p) == FALSE

\* if len(patch.Diffs) == 0 { return nil }
ApplyReturnsEarly(p) == Len(p.Diffs) = 0

ApplyOps ==
    [kind : {"apply"}, pc : {"start"},
     patch : {[NoPatch EXCEPT !.ID = FirstDevId, !.Diffs = ds] :
                 ds \in { <<>>, <<Diff(<<"f">>, TextBody)>>,
                          <<Diff(<<"f">>, TextBody), Diff(<<"L">>, PointerBody)>> }},
     gitOk : BOOLEAN, hist : {<<InitialCommit(1)>>}, cmds : {<<>>}, err : {""}]

\* r.Apply(patch)
RepoApply ==
    /\ repoOp.kind = "apply" /\ repoOp.pc = "start"
    /\ repoOp' =
          IF ApplyReturnsEarly(repoOp.patch) THEN [repoOp EXCEPT !.pc = "done"]
          ELSE IF repoOp.gitOk
          THEN [repoOp EXCEPT !.pc = "done", !.cmds = Append(@, "am"),
                              !.hist = Append(@, [id |-> repoOp.patch.ID,
                                                  files |-> repoOp.patch.Diffs,
                                                  subject |-> repoOp.patch.Subject,
                                                  body |-> repoOp.patch.Body])]
          ELSE [repoOp EXCEPT !.pc = "done", !.cmds = Append(@, "am"), !.err = "am"]
    /\ UNCHANGED <<rwVars, envVars, cl>>
    /\ UNCHANGED <<syncVars, lockVars>>

(***************************************************************************)
(* Repo.Push: git lfs push, then git push.  lfsOk and gitOk say whether    *)
(* the two commands succeed; objects and branch say what the remote has    *)
(* received.                                                               *)
(***************************************************************************)
\* a Push that goes on to the branch after a failed push of the objects
AfterLFSPush_GoOn(ok) == "branch"

\* if err != nil { return err }
AfterLFSPush(ok) == IF ok THEN "branch" ELSE "done"

PushOps ==
    [kind : {"push"}, pc : {"start"}, lfsOk : BOOLEAN, gitOk : BOOLEAN,
     objects : {FALSE}, branch : {FALSE}, cmds : {<<>>}, err : {""}]

\* r.git(nil, "lfs", "push", "origin", remoteBranch)
RepoPushLFS ==
    /\ repoOp.kind = "push" /\ repoOp.pc = "start"
    /\ repoOp' = [repoOp EXCEPT !.cmds = Append(@, "lfs push"),
                                !.objects = repoOp.lfsOk,
                                !.err = IF repoOp.lfsOk THEN "" ELSE "lfs push",
                                !.pc = AfterLFSPush(repoOp.lfsOk)]
    /\ UNCHANGED <<rwVars, envVars, cl>>
    /\ UNCHANGED <<syncVars, lockVars>>

\* r.git(nil, "push", remote, "HEAD:"+remoteBranch)
RepoPushBranch ==
    /\ repoOp.kind = "push" /\ repoOp.pc = "branch"
    /\ repoOp' = [repoOp EXCEPT !.cmds = Append(@, "push"),
                                !.branch = repoOp.gitOk,
                                !.err = IF repoOp.gitOk THEN "" ELSE "push",
                                !.pc = "done"]
    /\ UNCHANGED <<rwVars, envVars, cl>>
    /\ UNCHANGED <<syncVars, lockVars>>

(***************************************************************************)
(* Repo.CopyLFSObject.  pointer is what the pointer file holds: a line     *)
(* with an oid, no such line, or one with an oid that is no digest.  final *)
(* and tmp are the contents of the object file and of the temporary file   *)
(* (opath + ".grit"): "none" if the file is not there, "old" for an object *)
(* installed before, "empty", "partial" or "full" for what smudge wrote.   *)
(* The other inputs say whether the system calls and git succeed.          *)
(***************************************************************************)
\* a return that leaves the temporary file behind
AtReturn_Keep(tmp) == tmp

\* defer os.Remove(tmp.Name()): the temporary file when the function returns
AtReturn(tmp) == "none"

CopyOps ==
    [kind : {"copy"}, pc : {"start"}, readOk : BOOLEAN,
     pointer : {"oid", "no oid", "bad oid"}, exists : BOOLEAN, createOk : BOOLEAN,
     smudgeOk : BOOLEAN, closeOk : BOOLEAN, renameOk : BOOLEAN,
     final : {"none"}, tmp : {"none"}, cmds : {<<>>}, err : {""}]

\* the object files of the operations: the one that exists is an old one
CopyStart == {[o EXCEPT !.final = IF o.exists THEN "old" ELSE "none"] : o \in CopyOps}

\* from ioutil.ReadFile to os.Stat(opath)
CopyRead ==
    /\ repoOp.kind = "copy" /\ repoOp.pc = "start"
    /\ repoOp' =
          IF ~repoOp.readOk THEN [repoOp EXCEPT !.pc = "done", !.err = "read"]
          ELSE IF repoOp.pointer = "bad oid" THEN [repoOp EXCEPT !.pc = "done", !.err = "digest"]
          ELSE IF repoOp.pointer = "no oid"
          THEN [repoOp EXCEPT !.pc = "done", !.err = "pointer file is missing oid"]
          ELSE IF repoOp.exists THEN [repoOp EXCEPT !.pc = "done"]
          ELSE [repoOp EXCEPT !.pc = "create"]
    /\ UNCHANGED <<rwVars, envVars, cl>>
    /\ UNCHANGED <<syncVars, lockVars>>

\* os.MkdirAll and os.Create(opath + ".grit")
CopyCreate ==
    /\ repoOp.kind = "copy" /\ repoOp.pc = "create"
    /\ repoOp' =
          IF repoOp.createOk THEN [repoOp EXCEPT !.pc = "smudge", !.tmp = "empty"]
          ELSE [repoOp EXCEPT !.pc = "done", !.err = "create"]
    /\ UNCHANGED <<rwVars, envVars, cl>>
    /\ UNCHANGED <<syncVars, lockVars>>

\* src.gitIO(bytes.NewReader(p), tmp, "lfs", "smudge")
CopySmudge ==
    /\ repoOp.kind = "copy" /\ repoOp.pc = "smudge"
    /\ repoOp' =
          IF repoOp.smudgeOk
          THEN [repoOp EXCEPT !.pc = "close", !.tmp = "full", !.cmds = Append(@, "lfs smudge")]
          ELSE [repoOp EXCEPT !.pc = "done", !.tmp = AtReturn("partial"),
                              !.cmds = Append(@, "lfs smudge"), !.err = "smudge"]
    /\ UNCHANGED <<rwVars, envVars, cl>>
    /\ UNCHANGED <<syncVars, lockVars>>

\* tmp.Close()
CopyClose ==
    /\ repoOp.kind = "copy" /\ repoOp.pc = "close"
    /\ repoOp' =
          IF repoOp.closeOk THEN [repoOp EXCEPT !.pc = "rename"]
          ELSE [repoOp EXCEPT !.pc = "done", !.tmp = AtReturn("partial"), !.err = "close"]
    /\ UNCHANGED <<rwVars, envVars, cl>>
    /\ UNCHANGED <<syncVars, lockVars>>

\* return os.Rename(tmp.Name(), opath)
CopyRename ==
    /\ repoOp.kind = "copy" /\ repoOp.pc = "rename"
    /\ repoOp' =
          IF repoOp.renameOk
          THEN [repoOp EXCEPT !.pc = "done", !.final = repoOp.tmp, !.tmp = "none"]
          ELSE [repoOp EXCEPT !.pc = "done", !.tmp = AtReturn(repoOp.tmp), !.err = "rename"]
    /\ UNCHANGED <<rwVars, envVars, cl>>
    /\ UNCHANGED <<syncVars, lockVars>>

(***************************************************************************)
(* Open after the lock is taken: clone if there is no checkout, fetch,     *)
(* reset --hard FETCH_HEAD, am --abort.  The commits are "r0" (the head of *)
(* the branch when the run before opened it), "r1" (a commit pushed to the *)
(* branch since) and "u" (a commit the run before applied and did not      *)
(* push).  co is the checkout: its HEAD, its ORIG_HEAD, and am, the HEAD   *)
(* git am recorded when it stopped ("none" if no session is pending).      *)
(* lock is the flock of the checkout, which r.lock.Lock() has taken; only  *)
(* Repo.Close calls r.lock.Unlock().                                       *)
(***************************************************************************)
NoCheckout == [head |-> "none", orig |-> "none", am |-> "none"]

\* what a run may leave behind: a clean checkout, an unpushed commit, a
\* session of git am that stopped at the first patch or at the second
Leftovers ==
    { [head |-> "r0", orig |-> "none", am |-> "none"],
      [head |-> "u", orig |-> "r0", am |-> "none"],
      [head |-> "r0", orig |-> "r0", am |-> "r0"],
      [head |-> "u", orig |-> "u", am |-> "u"] }

\* git am --abort that rewinds to ORIG_HEAD wherever HEAD is
AmAbort_Rewind(co) ==
    IF co.am = "none" THEN co ELSE [co EXCEPT !.head = co.orig, !.am = "none"]

\* git am --abort: the session is removed; HEAD is rewound to ORIG_HEAD only
\* if it has not moved since git am stopped
AmAbort(co) ==
    IF co.am = "none" THEN co
    ELSE IF co.am = co.head THEN [co EXCEPT !.head = co.orig, !.am = "none"]
    ELSE [co EXCEPT !.am = "none"]

OpenOps ==
    [kind : {"open"}, pc : {"start"}, co : Leftovers \cup {NoCheckout},
     remoteHead : {"r0", "r1"}, cloneOk : BOOLEAN, fetchOk : BOOLEAN, resetOk : BOOLEAN,
     fetchHead : {"none"}, err : {""}, lock : {"held"}]

\* if the checkout is missing: git clone --single-branch
OpenClone ==
    /\ repoOp.kind = "open" /\ repoOp.pc = "start"
    /\ repoOp' =
          IF repoOp.co # NoCheckout THEN [repoOp EXCEPT !.pc = "fetch"]
          ELSE IF repoOp.cloneOk
          THEN [repoOp EXCEPT !.pc = "fetch", !.co = [NoCheckout EXCEPT !.head = "r0"]]
          ELSE [repoOp EXCEPT !.pc = "done", !.err = "clone"]
    /\ UNCHANGED <<rwVars, envVars, cl>>
    /\ UNCHANGED <<syncVars, lockVars>>

\* git fetch origin branch
OpenFetch ==
    /\ repoOp.kind = "open" /\ repoOp.pc = "fetch"
    /\ repoOp' =
          IF repoOp.fetchOk
          THEN [repoOp EXCEPT !.pc = "reset", !.fetchHead = repoOp.remoteHead]
          ELSE [repoOp EXCEPT !.pc = "done", !.err = "fetch"]
    /\ UNCHANGED <<rwVars, envVars, cl>>
    /\ UNCHANGED <<syncVars, lockVars>>

\* git reset --hard FETCH_HEAD: ORIG_HEAD becomes the HEAD before
OpenReset ==
    /\ repoOp.kind = "open" /\ repoOp.pc = "reset"
    /\ repoOp' =
          IF repoOp.resetOk
          THEN [repoOp EXCEPT !.pc = "abort", !.co.orig = repoOp.co.head,
                              !.co.head = repoOp.fetchHead]
          ELSE [repoOp EXCEPT !.pc = "done", !.err = "reset"]
    /\ UNCHANGED <<rwVars, envVars, cl>>
    /\ UNCHANGED <<syncVars, lockVars>>

\* _, _ = r.git(nil, "am", "--abort")
OpenAbort ==
    /\ repoOp.kind = "open" /\ repoOp.pc = "abort"
    /\ repoOp' = [repoOp EXCEPT !.pc = "done", !.co = AmAbort(repoOp.co)]
    /\ UNCHANGED <<rwVars, envVars, cl>>
    /\ UNCHANGED <<syncVars, lockVars>>

(***************************************************************************)
(* The two readings of a sync trailer: the expression of Step 1, which git *)
(* log --grep matches against each line of a message, and shipitRe, which  *)
(* Commit.ShipitID matches against the whole message.  A message is the    *)
(* sequence of its lines, a line a sequence of characters.                 *)
(***************************************************************************)
ShipitKey ==
    <<"s", "h", "i", "p", "i", "t", "-", "s", "o", "u", "r", "c", "e", "-", "i", "d", ":", " ">>

\* [a-z0-9]
IdChars ==
    {"a", "b", "c", "d", "e", "f", "g", "h", "i", "j", "k", "l", "m", "n", "o", "p", "q",
     "r", "s", "t", "u", "v", "w", "x", "y", "z",
     "0", "1", "2", "3", "4", "5", "6", "7", "8", "9"}

\* [a-z0-9]* at the start of s, greedy
RECURSIVE IdRun(_)
IdRun(s) ==
    IF s # <<>> /\ Head(s) \in IdChars THEN <<Head(s)>> \o IdRun(Tail(s)) ELSE <<>>

\* shipitRe.FindAllStringSubmatch(line, -1): the identifiers of the
\* matches, leftmost first; the optional fb changes none of them
RECURSIVE FindAllShipit(_)
FindAllShipit(s) ==
    IF Len(s) < Len(ShipitKey) THEN <<>>
    ELSE LET rest == SubSeq(s, Len(ShipitKey) + 1, Len(s))
             id == IdRun(rest)
         IN  IF HasPrefix(s, ShipitKey) /\ id # <<>>
             THEN <<id>> \o FindAllShipit(SubSeq(rest, Len(id) + 1, Len(rest)))
             ELSE FindAllShipit(Tail(s))

\* Commit.ShipitID on a message: no match spans two lines
RECURSIVE ShipitIDs(_)
ShipitIDs(msg) ==
    IF msg = <<>> THEN <<>> ELSE FindAllShipit(Head(msg)) \o ShipitIDs(Tail(msg))

\* ^\s*\(fb\)\?shipit-source-id: [a-z0-9]\+$ on one line
GrepLine(s) ==
    LET Whole(t) ==
            LET rest == SubSeq(t, Len(ShipitKey) + 1, Len(t))
            IN  HasPrefix(t, ShipitKey) /\ rest # <<>> /\ IdRun(rest) = rest
    IN  Whole(TrimLeft(s)) \/ Whole(TrimPrefix(TrimLeft(s), <<"f", "b">>))

\* git log --grep selects a commit if a line of its message matches
LogGrepShipit(msg) == \E k \in 1..Len(msg) : GrepLine(msg[k])

\* lines of a message: the trailer grit writes, the trailer without fb, an
\* indented trailer, a trailer quoted in a sentence, a trailer followed by
\* a full stop, identifiers with capitals, a key without the space, text
TrailerLines ==
    LET fb == <<"f", "b">>
    IN  { fb \o ShipitKey \o <<"a", "1">>,
          ShipitKey \o <<"a", "1">>,
          <<" ", " ">> \o fb \o ShipitKey \o <<"a", "1">>,
          <<"s", "e", "e", " ">> \o fb \o ShipitKey \o <<"a", "1">>,
          fb \o ShipitKey \o <<"a", "1", ".">>,
          fb \o ShipitKey \o <<"A", "B">>,
          fb \o ShipitKey \o <<"a", "B">>,
          fb \o SubSeq(ShipitKey, 1, Len(ShipitKey) - 1) \o <<"a", "1">>,
          <<"t">>,
          <<>> }

TrailerOps ==
    [kind : {"trailer"}, pc : {"start"}, msg : StringsUpTo(TrailerLines, 2),
     found : {FALSE}, ids : {<<>>}]

\* main tests a commit for a sync trailer: Step 1 by dst.Log("-1",
\* "--grep", ...), Steps 2 and 3 by commit.ShipitID()
ReadTrailers ==
    /\ repoOp.kind = "trailer" /\ repoOp.pc = "start"
    /\ repoOp' = [repoOp EXCEPT !.pc = "done", !.found = LogGrepShipit(repoOp.msg),
                                !.ids = ShipitIDs(repoOp.msg)]
    /\ UNCHANGED <<rwVars, envVars, cl>>
    /\ UNCHANGED <<syncVars, lockVars>>

(***************************************************************************)
(* The endpoint of the candidates of Step 2.  A remote has the branches    *)
(* master and dev, which fork at its root commit; its HEAD names one of    *)
(* them.  The checkout that Open makes has one local branch, named as the  *)
(* branch that the HEAD of the remote named when it was cloned, and Open   *)
(* resets it to the head of the branch of the source spec.                 *)
(***************************************************************************)
BranchNames == {<<"master">>, <<"dev">>}

CommitOf(n) == [InitialCommit(n) EXCEPT !.files = <<Diff(<<"f">>, TextBody)>>]

\* the history of a branch of the remote, oldest first
BranchHist(b) ==
    IF b = <<"master">> THEN <<CommitOf(1), CommitOf(2)>>
    ELSE <<CommitOf(1), CommitOf(3), CommitOf(4)>>

\* source specs: the url alone, and the url with a branch
BranchSpecs ==
    { <<"A">>, <<"A", ",", ",", "master">>, <<"A", ",", ",", "dev">> }

\* the revision master names a commit of the checkout: its local branch
\* is called master
MasterKnown(co) == co.name = <<"master">>

\* src.Log(newestID+"..master", "--ancestry-path", "--no-merges") in the
\* checkout co
LogToMaster(co, pfx, newestID) ==
    IF LogSwallows(GitLogError(co.hist, pfx, MasterKnown(co))) THEN <<>>
    ELSE LogRange(co.hist, pfx, newestID)

RangeOps ==
    [kind : {"range"}, pc : {"start"}, spec : BranchSpecs, remoteHead : BranchNames,
     last : 1..2, co : {[name |-> <<>>, hist |-> <<>>]},
     initial : {<<>>}, incremental : {<<>>}]

\* Open(url, prefix, branch) of the source with a missing checkout: clone
\* --single-branch, fetch origin branch, reset --hard FETCH_HEAD
RangeOpen ==
    /\ repoOp.kind = "range" /\ repoOp.pc = "start"
    /\ repoOp' = [repoOp EXCEPT !.pc = "log",
                     !.co = [name |-> repoOp.remoteHead,
                             hist |-> BranchHist(parseSpec(repoOp.spec).branch)]]
    /\ UNCHANGED <<rwVars, envVars, cl>>
    /\ UNCHANGED <<syncVars, lockVars>>

\* Step 2: the candidates of an initial sync, and those of an incremental
\* sync after the commit last of the branch
RangeLog ==
    /\ repoOp.kind = "range" /\ repoOp.pc = "log"
    /\ repoOp' = [repoOp EXCEPT !.pc = "done",
                     !.initial = LogAll(repoOp.co.hist, NoPrefix),
                     !.incremental =
                         LogToMaster(repoOp.co, NoPrefix,
                                     Short(Hex(repoOp.co.hist[repoOp.last].id)))]
    /\ UNCHANGED <<rwVars, envVars, cl>>
    /\ UNCHANGED <<syncVars, lockVars>>

\* Repo.Close: r.lock.Unlock(), on the Repo that Open returned
RepoClose ==
    /\ repoOp.kind = "open" /\ repoOp.pc = "done" /\ repoOp.err = ""
    /\ repoOp' = [repoOp EXCEPT !.pc = "closed", !.lock = "free"]
    /\ UNCHANGED <<rwVars, envVars, cl>>
    /\ UNCHANGED <<syncVars, lockVars>>

RepoInit == repoOp \in PatchOps \cup ApplyOps \cup PushOps \cup CopyStart \cup OpenOps
                \cup TrailerOps \cup RangeOps

RepoNext ==
    \/ RepoPatch
    \/ RepoApply
    \/ RepoPushLFS
    \/ RepoPushBranch
    \/ CopyRead
    \/ CopyCreate
    \/ CopySmudge
    \/ CopyClose
    \/ CopyRename
    \/ OpenClone
    \/ OpenFetch
    \/ OpenReset
    \/ OpenAbort
    \/ RepoClose
    \/ ReadTrailers
    \/ RangeOpen
    \/ RangeLog

RepoQuiet == repoOp = [kind |-> "none", pc |-> "done"]

CommandQuiet == cl = [args |-> NoCommandLine, pc |-> "start", exit |-> 0, ops |-> <<>>]

(***************************************************************************)
(* The specifications.  Spec is the sync run of one process; SpecLock is   *)
(* the locking of concurrent processes; SpecLockFair adds that a process   *)
(* that can take a step eventually does.                                   *)
(***************************************************************************)
SyncQuiet ==
    /\ SyncInit
    /\ prefix = [u \in URLs |-> NoPrefix]
    /\ NoRules(rules)
    /\ remote = [u \in URLs |-> <<InitialCommit(u)>>]
    /\ mode = "push"

LockQuiet ==
    /\ LockInit
    /\ runOf = [p \in Procs |-> [src |-> 1, dst |-> 2]]
    /\ checkout = [u \in LockURLs |-> TRUE]

RewriteQuiet ==
    /\ RewriteInit
    /\ rwRules = <<>>
    /\ rwOrig = Diff(<<"f">>, <<>>)

EnvelopeQuiet ==
    /\ envRaw = [from |-> <<"From">>, author |-> MailAddr,
                 date |-> NoText.date, subject |-> <<>>, body |-> <<>>, diffs |-> <<>>]
    /\ envPatch = NoEnvelope
    /\ envText = NoText
    /\ envBack = NoEnvelope
    /\ envPc = "raw"

Init == SyncInit /\ LockQuiet /\ RewriteQuiet /\ EnvelopeQuiet /\ CommandQuiet /\ RepoQuiet

Spec == Init /\ [][SyncNext]_vars

InitLock == LockInit /\ SyncQuiet /\ RewriteQuiet /\ EnvelopeQuiet /\ CommandQuiet /\ RepoQuiet

SpecLock == InitLock /\ [][LockNext]_vars

SpecLockFair ==
    SpecLock /\ \A p \in Procs : WF_vars(ProcNext(p))

InitRewrite == SyncQuiet /\ LockQuiet /\ EnvelopeQuiet /\ CommandQuiet /\ RepoQuiet /\ RewriteInit

SpecRewrite == InitRewrite /\ [][RewriteNext]_vars

InitEnvelope == SyncQuiet /\ LockQuiet /\ RewriteQuiet /\ CommandQuiet /\ RepoQuiet /\ EnvelopeInit

SpecEnvelope == InitEnvelope /\ [][EnvelopeNext]_vars

InitCommand == SyncQuiet /\ LockQuiet /\ RewriteQuiet /\ EnvelopeQuiet /\ RepoQuiet /\ CommandInit

SpecCommand == InitCommand /\ [][CommandNext]_vars

InitRepo == SyncQuiet /\ LockQuiet /\ RewriteQuiet /\ EnvelopeQuiet /\ CommandQuiet /\ RepoInit

SpecRepo == InitRepo /\ [][RepoNext]_vars

(***************************************************************************)
(* Properties of the sync run.                                             *)
(***************************************************************************)
\* the source commit a patch was derived from
SrcCommit(id) ==
    CHOOSE c \in {local[cfg.src][k] : k \in 1..Len(local[cfg.src])} : c.id = id

\* the places of the trace where a patch was applied or dumped
Applied == {k \in 1..Len(trace) : trace[k].op \in {"apply", "dump"}}

\* the destination commit a run produces from the source commit c
CopyOf(c) ==
    LET p == Transform(rules, prefix[cfg.src], prefix[cfg.dst], c)
    IN  [id |-> nextId, files |-> p.Diffs, subject |-> p.Subject, body |-> p.Body]

\* C1: a run that follows a run of the same source and destination which
\* ended well and pushed, with the same rules and no commit in between,
\* applies nothing and leaves the destination as it was.
C1_Idempotent ==
    (pc # "idle" /\ prev.ok /\ prev.src = cfg.src /\ prev.dst = cfg.dst)
        => (ncommit = 0 /\ local[cfg.dst] = remote[cfg.dst])

\* C1 holds of the runs whose destination has no prefix or that have no
\* path rule: there the two evaluations of C5 see the same paths.
C1_IdempotentSamePaths ==
    (pc # "idle" /\ prev.ok /\ prev.src = cfg.src /\ prev.dst = cfg.dst
        /\ (prefix[cfg.dst] = NoPrefix \/ rules.strip = <<>>))
        => (ncommit = 0 /\ local[cfg.dst] = remote[cfg.dst])

Stale(c, pfx) ==
    \/ isStripped(rules, c)
    \/ \A k \in 1..Len(c.files) :
          HasPrefix(c.files[k].Path, pfx)
              => isPathStripped(rules, TrimPrefix(c.files[k].Path, pfx))

C5_RulesAgree ==
    (pc = "loop" /\ i > 0) =>
        ((Transform(rules, prefix[cfg.src], prefix[cfg.dst], commits[i]).Diffs # <<>>)
            <=> isCommitApplicable(rules, CopyOf(commits[i]), prefix[cfg.dst]))

\* the place of a candidate in the list Log returned
Pos(id) == CHOOSE k \in 1..Len(commits) : commits[k].id = id

\* C10: the candidates are processed one at a time from the last of the log
\* (the oldest) to the first: the steps of a later candidate never precede a
\* step of an earlier one, a patch is derived once and before it is applied
\* or dumped, its large objects are copied after it was applied, the first
\* patch derived is the oldest candidate's, and a run that ends well has
\* derived the patch of every candidate.
C10_OldestFirst ==
    LET Steps == {k \in 1..Len(trace) : trace[k].op \in {"patch", "apply", "dump", "lfs"}}
    IN  /\ \A k \in Steps, l \in Steps :
              k < l => /\ Pos(trace[k].id) >= Pos(trace[l].id)
                       /\ trace[k].op = trace[l].op /\ trace[k].op # "lfs"
                              => Pos(trace[k].id) > Pos(trace[l].id)
        /\ \A k \in Steps :
              /\ trace[k].op # "patch" =>
                    \E m \in 1..(k - 1) : trace[m].op = "patch" /\ trace[m].id = trace[k].id
              /\ trace[k].op = "lfs" =>
                    \E m \in 1..(k - 1) : trace[m].op = "apply" /\ trace[m].id = trace[k].id
        /\ Steps # {} => trace[1].id = commits[Len(commits)].id
        /\ pc = "done" =>
              {trace[k].id : k \in {m \in Steps : trace[m].op = "patch"}}
                  = {commits[k].id : k \in 1..Len(commits)}

\* a run has applied two commits
C10_Witness == pc = "done" /\ Cardinality(Applied) >= 2

\* the places of the trace where the destination was pushed, and where an
\* external operation failed
Pushes == {k \in 1..Len(trace) : trace[k].op = "push"}
Fails == {k \in 1..Len(trace) : trace[k].op = "fail"}

\* the candidates whose patch was derived
Derived == {trace[k].id : k \in {m \in 1..Len(trace) : trace[m].op = "patch"}}

\* C11: a run pushes at most once; the push is its last operation, made
\* after the patch of every candidate was derived, push was requested and a
\* commit was counted; a run that ends well has pushed exactly if push was
\* requested and a commit was counted; a run that counted no commit ends
\* fatally only where a log or a patch derivation failed.
C11_PushOnce ==
    /\ Cardinality(Pushes) <= 1
    /\ \A k \in Pushes :
          /\ k = Len(trace) /\ pc = "done" /\ i = 0
          /\ cfg.push /\ ncommit >= 1
          /\ Derived = {commits[m].id : m \in 1..Len(commits)}
    /\ pc = "done" => (Pushes # {} <=> (cfg.push /\ ncommit >= 1))
    /\ (pc = "fatal" /\ ncommit = 0) =>
          /\ Len(trace) > 0
          /\ trace[Len(trace)].op = "fail"
          /\ trace[Len(trace)].arg \in {"log", "patch"}

\* a run has applied a commit and pushed
C11_Witness == pc = "done" /\ Pushes # {} /\ Applied # {}

CopiesOf(hist, c) ==
    {j \in 1..Len(hist) :
        \E k \in 1..Len(ShipitID(hist[j])) : ShipitID(hist[j])[k] = Short(Hex(c.id))}

\* the source commit c is one the run copies: it is no copy, no strip-commit
\* rule names it, and a diff of its patch survives the path rules
Copied(c) ==
    /\ ShipitID(c) = <<>>
    /\ ~isStripped(rules, c)
    /\ Transform(rules, prefix[cfg.src], prefix[cfg.dst], c).Diffs # <<>>

\* a run has ended well and pushed, and the run before it, of the same source
\* and destination, had ended fatally after it applied commits
Resumed ==
    /\ pc = "done" /\ cfg.push
    /\ prev.partial /\ prev.src = cfg.src /\ prev.dst = cfg.dst

\* C13: after a run that resumed a run which ended fatally after it applied
\* commits has ended well and pushed, no source commit has two copies in the
\* destination, and every candidate the run copies has exactly one.
C13_Resume ==
    Resumed =>
        /\ \A k \in 1..Len(local[cfg.src]) :
              Cardinality(CopiesOf(remote[cfg.dst], local[cfg.src][k])) <= 1
        /\ \A k \in 1..Len(commits) :
              Copied(commits[k]) =>
                  Cardinality(CopiesOf(remote[cfg.dst], commits[k])) = 1

\* C13 holds of the runs whose destination has no prefix or that have no
\* path rule, where the two evaluations of C5 see the same paths.
C13_ResumeSamePaths ==
    (Resumed /\ (prefix[cfg.dst] = NoPrefix \/ rules.strip = <<>>)) =>
        \A k \in 1..Len(local[cfg.src]) :
            LET n == Cardinality(CopiesOf(remote[cfg.dst], local[cfg.src][k]))
            IN  n <= 1 /\ (Copied(local[cfg.src][k]) => n = 1)

\* the diffs of the patch of source commit c that survive the path rules
Surviving(c) ==
    LET p == Patch(prefix[cfg.src], c, prefix[cfg.dst])
    IN  {p.Diffs[k] : k \in {m \in 1..Len(p.Diffs) : ~isPathStripped(rules, p.Diffs[m].Path)}}

Reverse(s) == [k \in 1..Len(s) |-> s[Len(s) + 1 - k]]

\* C14: the patch that is applied or dumped has the subject "Stripped commit"
\* and the body "Commit message stripped.", a blank line and the trailer if
\* every surviving diff matches a strip-message rule, and the subject and
\* the body of its commit (plus the trailer) if a surviving diff matches
\* none; the decision is a function of the set of surviving diffs, so the
\* path-stripped diffs have no part in it, and it is the same for the diffs
\* taken in the opposite order.
C14_MessageStripping ==
    pc \in {"apply", "dump"} =>
        LET c == SrcCommit(patch.ID)
            p == Patch(prefix[cfg.src], c, prefix[cfg.dst])
            tag == TagLine(Short(Hex(c.id)))
        IN  /\ IF \A d \in Surviving(c) : isMessagePathStripped(rules, d.Path)
               THEN /\ patch.Subject = "Stripped commit"
                    /\ patch.Body = <<StubLine, BlankLine, tag>>
               ELSE /\ patch.Subject = c.subject
                    /\ patch.Body \in {<<tag>>, c.body \o <<BlankLine, tag>>}
                    /\ SubSeq(patch.Body, 1, Len(c.body)) = c.body
            /\ stripMessage(rules, Reverse(p.Diffs)) = stripMessage(rules, p.Diffs)

\* a commit with a path-stripped diff that matches no message rule and a
\* surviving diff that matches one is applied with the stub message
C14_Witness ==
    /\ pc \in {"apply", "dump"}
    /\ patch.Subject = "Stripped commit"
    /\ LET p == Patch(prefix[cfg.src], SrcCommit(patch.ID), prefix[cfg.dst])
       IN  \E k \in 1..Len(p.Diffs) :
               /\ isPathStripped(rules, p.Diffs[k].Path)
               /\ ~isMessagePathStripped(rules, p.Diffs[k].Path)

\* a commit with two surviving diffs of which one matches a message rule
\* keeps its message
C14_WitnessKept ==
    /\ pc \in {"apply", "dump"}
    /\ patch.Subject # "Stripped commit"
    /\ \E d \in Surviving(SrcCommit(patch.ID)) : isMessagePathStripped(rules, d.Path)

\* the places of the trace where the patch of a commit was derived of which
\* no diff survives the path rules
Skipped ==
    {k \in 1..Len(trace) :
        trace[k].op = "patch" /\ Surviving(SrcCommit(trace[k].id)) = {}}

\* C15: a candidate of which no diff survives the path rules is neither
\* applied nor dumped, it is not counted in ncommit, and the run goes on to
\* the next candidate: a run that ends well has derived the patch of every
\* candidate.
C15_SkipEmpty ==
    /\ \A k \in Applied : Surviving(SrcCommit(trace[k].id)) # {}
    /\ \A k \in Skipped :
          /\ k < Len(trace) => trace[k + 1].id # trace[k].id
          /\ k = Len(trace) => pc \in {"loop", "done"}
    /\ pc \in {"loop", "done"} =>
          ncommit = Cardinality({k \in 1..Len(trace) : trace[k].op = "patch"} \ Skipped)
    /\ pc = "done" => Derived = {commits[m].id : m \in 1..Len(commits)}
    /\ (pc = "done" /\ Skipped = {k \in 1..Len(trace) : trace[k].op = "patch"}) => Pushes = {}

\* a run has skipped a candidate and applied the next one
C15_Witness ==
    /\ pc = "done"
    /\ \E k \in Skipped : \E m \in Applied : k < m

\* the ids of the source commits whose patch the run has applied, in order
RECURSIVE AppliedIds(_)
AppliedIds(t) ==
    IF t = <<>> THEN <<>>
    ELSE (IF Head(t).op = "apply" THEN <<Head(t).id>> ELSE <<>>) \o AppliedIds(Tail(t))

\* C16: the body of the patch that is applied or dumped ends with the
\* trailer that names the first ShortLen hex digits of its source commit: it
\* is the stub, a blank line and the trailer for a message-stripped patch,
\* the trailer alone for a commit without body, and the body of the commit,
\* a blank line and the trailer otherwise; and the commits the run has
\* applied to the destination checkout end with the trailers of their
\* source commits, in the order of the applies.
C16_Trailer ==
    /\ pc \in {"apply", "dump"} =>
          LET c == SrcCommit(patch.ID)
              tag == TagLine(SubSeq(Hex(c.id), 1, ShortLen))
          IN  /\ patch.Body # <<>> /\ patch.Body[Len(patch.Body)] = tag
              /\ Len(tag.v) = ShortLen
              /\ patch.Subject = "Stripped commit" =>
                    patch.Body = <<StubLine, BlankLine, tag>>
              /\ (patch.Subject # "Stripped commit" /\ c.body # <<>>) =>
                    patch.Body = c.body \o <<BlankLine, tag>>
              /\ (patch.Subject # "Stripped commit" /\ c.body = <<>>) =>
                    patch.Body = <<tag>>
    /\ pc \in {"loop", "apply", "lfs", "done", "fatal"} =>
          LET ids == AppliedIds(trace)
              hist == local[cfg.dst]
          IN  /\ Len(hist) >= Len(ids)
              /\ \A j \in 1..Len(ids) :
                    LET body == hist[Len(hist) - Len(ids) + j].body
                    IN  /\ body # <<>>
                        /\ body[Len(body)] = TagLine(SubSeq(Hex(ids[j]), 1, ShortLen))

\* a patch of a commit with a body, with its message kept, is applied
C16_Witness ==
    /\ pc = "loop"
    /\ \E k \in Applied :
          /\ trace[k].op = "apply"
          /\ SrcCommit(trace[k].id).body # <<>>
          /\ patch.ID = trace[k].id /\ patch.Subject # "Stripped commit"

\* the places of the source history whose commit the trailer id names
NamedBy(id) ==
    {j \in 1..Len(local[cfg.src]) : HasPrefix(Hex(local[cfg.src][j].id), id)}

\* C17: when Step 1 has found lastCommit, and the last of its trailers names
\* a source commit, the candidates of Step 2 are the source commits after
\* that commit that touch the source prefix, newest first: the named commit
\* and the commits before it are no candidates, whatever the trailers in
\* front of the last one name.
C17_LastTrailer ==
    (pc = "filter" /\ lastCommit # 0) =>
        LET src == local[cfg.src]
            ids == ShipitID(local[cfg.dst][lastCommit])
        IN  /\ ids # <<>>
            /\ \A n \in NamedBy(ids[Len(ids)]) :
                  /\ \A j \in 1..Len(src) :
                        (\E m \in 1..Len(commits) : commits[m] = src[j])
                            <=> (j > n /\ TouchesPrefix(src[j], prefix[cfg.src]))
                  /\ \A m \in 1..Len(commits) : \E j \in 1..Len(src) : commits[m] = src[j]
                  /\ \A m1, m2 \in 1..Len(commits) :
                        m1 < m2 => \E j1, j2 \in 1..Len(src) :
                            j1 > j2 /\ commits[m1] = src[j1] /\ commits[m2] = src[j2]

\* lastCommit is a squash: its trailers name two source commits, and a
\* source commit lies between the two
C17_Witness ==
    /\ pc = "filter" /\ lastCommit # 0
    /\ LET ids == ShipitID(local[cfg.dst][lastCommit])
       IN  /\ Len(ids) >= 2
           /\ \E n1 \in NamedBy(ids[1]) : \E n2 \in NamedBy(ids[Len(ids)]) :
                 /\ n1 < n2
                 /\ TouchesPrefix(local[cfg.src][n2], prefix[cfg.src])

\* the diffs of source commit c whose path lies inside the source prefix
Inside(c) == SelectSeq(c.files, LAMBDA d : HasPrefix(d.Path, prefix[cfg.src]))

\* C18: the patch Repo.Patch derives for a candidate has one diff for each
\* diff of the commit whose path has the source prefix, in their order and
\* with their bodies, and no other; so the patch that is applied or dumped
\* has no diff that comes from a path outside the prefix.
C18_PathScoping ==
    /\ \A k \in 1..Len(trace) :
          trace[k].op = "patch" =>
              LET c == SrcCommit(trace[k].id)
                  p == Patch(prefix[cfg.src], c, prefix[cfg.dst])
              IN  /\ Len(p.Diffs) = Len(Inside(c))
                  /\ \A m \in 1..Len(p.Diffs) :
                        /\ p.Diffs[m].Body = Inside(c)[m].Body
                        /\ p.Diffs[m].Path =
                              fixPath(prefix[cfg.src], prefix[cfg.dst], Inside(c)[m].Path)
    /\ pc \in {"apply", "dump"} =>
          \A m \in 1..Len(patch.Diffs) :
              \E n \in 1..Len(Inside(SrcCommit(patch.ID))) :
                  /\ patch.Diffs[m].Body = Inside(SrcCommit(patch.ID))[n].Body
                  /\ patch.Diffs[m].Path =
                        fixPath(prefix[cfg.src], prefix[cfg.dst],
                                Inside(SrcCommit(patch.ID))[n].Path)

\* the patch of a commit that touches a file inside and a file outside the
\* prefix is applied or dumped
C18_Witness ==
    /\ pc \in {"apply", "dump"}
    /\ Inside(SrcCommit(patch.ID)) # <<>>
    /\ Len(Inside(SrcCommit(patch.ID))) < Len(SrcCommit(patch.ID).files)

\* the digest of commit c begins with the digits of a strip-commit rule,
\* upper and lower case digits taken as the same
MatchesStripCommit(c) ==
    \E k \in 1..Len(rules.stripCommits) :
        HasPrefix(UpperHex(Hex(c.id)), UpperHex(rules.stripCommits[k]))

\* C23: a commit whose digest begins with the digits of a strip-commit
\* rule, compared without regard to case, is stripped: isStripped holds of
\* it, it is no candidate after Step 3, and it is neither applied nor
\* dumped.
C23_StripCommitAnyCase ==
    pc \in {"loop", "apply", "dump", "lfs", "done"} =>
        /\ \A k \in 1..Len(local[cfg.src]) :
              MatchesStripCommit(local[cfg.src][k]) => isStripped(rules, local[cfg.src][k])
        /\ \A m \in 1..Len(commits) : ~MatchesStripCommit(commits[m])
        /\ \A k \in Applied : ~MatchesStripCommit(SrcCommit(trace[k].id))

\* what does hold: the same of the rules written in lower case
C23_StripCommitLowerCase ==
    (pc \in {"loop", "apply", "dump", "lfs", "done"}
        /\ \A k \in 1..Len(rules.stripCommits) : \A j \in 1..Len(rules.stripCommits[k]) :
              rules.stripCommits[k][j] \notin {"A", "B", "C", "D", "E", "F"}) =>
        /\ \A k \in 1..Len(local[cfg.src]) :
              MatchesStripCommit(local[cfg.src][k]) => isStripped(rules, local[cfg.src][k])
        /\ \A m \in 1..Len(commits) : ~MatchesStripCommit(commits[m])
        /\ \A k \in Applied : ~MatchesStripCommit(SrcCommit(trace[k].id))

\* the index in trace of the last patch applied
LastApply == CHOOSE k \in Applied : \A m \in Applied : m <= k

\* the files of the destination checkout for which a copy of the large
\* object was requested after the last patch was applied:
\* CopyLFSObject(src, ptr) reads the pointer file at prefix/ptr
Requested ==
    {prefix[cfg.dst] \o trace[k].arg :
        k \in {m \in 1..Len(trace) : m > LastApply /\ trace[m].op = "lfs"}}

\* the pointer files of the destination checkout that the patch touched
TouchedPointers == Paths(patch) \cap PointerFiles(local[cfg.dst])

\* C25: when the loop over the pointer files of the destination has ended,
\* a copy was requested for every pointer file the applied patch touched
\* and for no other file.
C25_SelectiveLFS == (pc = "lfs" /\ ptrs = <<>>) => Requested = TouchedPointers

\* the same for a destination without a prefix; under a prefix no copy is
\* requested for a file the patch did not touch
C25_SelectiveLFSNoPrefix ==
    (pc = "lfs" /\ ptrs = <<>>) =>
        /\ Requested \subseteq TouchedPointers
        /\ prefix[cfg.dst] = NoPrefix => Requested = TouchedPointers

\* some diff body of p has the bytes o, i, d in a row
HasOid(p) ==
    \E k \in 1..Len(p.Diffs) : \E j \in 1..Len(p.Diffs[k].Body) :
        /\ j + 2 <= Len(p.Diffs[k].Body)
        /\ p.Diffs[k].Body[j] = "o"
        /\ p.Diffs[k].Body[j + 1] = "i"
        /\ p.Diffs[k].Body[j + 2] = "d"

\* the commits of hist at or below h that carry a sync trailer
TrailerBearing(hist, h) == {j \in 1..h : GrepShipit(hist[j])}

\* C33: every iteration of the walk of Step 1 accepts a candidate, finds
\* none, or restarts strictly below the candidate it rejected: the rejected
\* candidate carries a trailer and lies above the new head, so it is not
\* examined again, and the number of trailer-bearing commits still to be
\* searched decreases with every iteration, which bounds the iterations
\* by the number of trailer-bearing commits of the history.  (An iteration
\* whose git command fails ends the run in log.Fatalf.)
C33_WalkDescends ==
    [][pc = "locate" =>
          \/ pc' \in {"range", "fatal"}
          \/ /\ pc' = "locate"
             /\ head' \in 0..(head - 1)
             /\ GrepShipit(local[cfg.dst][head' + 1])
             /\ Cardinality(TrailerBearing(local[cfg.dst], head'))
                    < Cardinality(TrailerBearing(local[cfg.dst], head))]_vars

\* the walk has rejected a candidate that was not the newest commit of the
\* destination, and goes on below it
C33_Witness ==
    /\ pc = "locate"
    /\ head + 1 < Len(local[cfg.dst])
    /\ GrepShipit(local[cfg.dst][head + 1])

\* C26: after a patch is applied the loop over the pointer files is entered
\* if and only if some diff body of the patch contains "oid", and when it
\* is not entered the patch touched no pointer file of the destination.
C26_NoFalseNegative ==
    [][(pc = "apply" /\ pc' \in {"loop", "lfs"}) =>
          /\ pc' = "lfs" <=> HasOid(patch)
          /\ pc' = "loop" => Paths(patch) \cap PointerFiles(local'[cfg.dst]) = {}]_vars

\* a patch without an oid was applied to a destination that has pointer
\* files, and the loop over them was not entered
C26_Witness ==
    /\ pc = "loop"
    /\ trace # <<>> /\ trace[Len(trace)].op = "apply" /\ trace[Len(trace)].id = patch.ID
    /\ ~HasOid(patch)
    /\ PointerFiles(local[cfg.dst]) # {}

\* the revision of Step 2 names a commit of the source
RangeKnown ==
    \E j \in 1..Len(local[cfg.src]) :
        HasPrefix(Hex(local[cfg.src][j].id),
                  ShipitID(local[cfg.dst][lastCommit])[Len(ShipitID(local[cfg.dst][lastCommit]))])

\* some commit of the source has a file under the prefix of the source
SrcPrefixInTree ==
    \/ prefix[cfg.src] = NoPrefix
    \/ \E j \in 1..Len(local[cfg.src]) : TouchesPrefix(local[cfg.src][j], prefix[cfg.src])

\* C27: the log of Step 2 returns without an error only if git log
\* succeeded or failed because the prefix is not in the working tree: a log
\* from a revision the source does not have, with the prefix in the tree,
\* does not return normally.
C27_OnlyMissingPrefix ==
    (pc = "filter" /\ lastCommit # 0) => (RangeKnown \/ ~SrcPrefixInTree)

\* a log of Step 2 under a prefix that is not in the working tree returns
\* no commits and no error, and the log of a known revision with the prefix
\* in the tree returns the commits after it
C27_MissingPrefixEmpty ==
    pc = "filter" =>
        /\ ~SrcPrefixInTree => commits = <<>>
        /\ (lastCommit # 0 /\ RangeKnown /\ SrcPrefixInTree) =>
              \A j \in 1..Len(local[cfg.src]) :
                  (/\ TouchesPrefix(local[cfg.src][j], prefix[cfg.src])
                   /\ \E m \in 1..(j - 1) :
                         HasPrefix(Hex(local[cfg.src][m].id),
                                   ShipitID(local[cfg.dst][lastCommit])[Len(ShipitID(local[cfg.dst][lastCommit]))]))
                  => \E k \in 1..Len(commits) : commits[k] = local[cfg.src][j]

\* C29: when no commit of the destination carries a trailer, or every one
\* that does is stale, Step 1 ends without a lastCommit, also when its walk
\* has passed the root commit, and the candidates of Step 2 are all commits
\* of the source that touch its prefix, the newest first.
C29_InitialSync ==
    (/\ pc = "filter"
     /\ \A j \in 1..Len(local[cfg.dst]) :
           GrepShipit(local[cfg.dst][j]) => Stale(local[cfg.dst][j], prefix[cfg.dst]))
    => /\ lastCommit = 0
       /\ commits = Reverse(SelectSeq(local[cfg.src],
                                      LAMBDA c : TouchesPrefix(c, prefix[cfg.src])))

\* the root commit of the destination carries a trailer and is stale, the
\* walk of Step 1 went on from its parent, and the candidates are the root
\* commit of the source and a commit after it
C29_Witness ==
    /\ pc = "filter" /\ lastCommit = 0 /\ head = 0
    /\ GrepShipit(local[cfg.dst][1])
    /\ Len(local[cfg.dst]) > 1
    /\ Len(commits) = Len(local[cfg.src]) /\ Len(commits) > 1

\* the ids of the patches written to standard output
Dumped == {trace[k].id : k \in {m \in 1..Len(trace) : trace[m].op = "dump"}}

\* C30: in a run with -dump no patch is applied, no large object is copied
\* and nothing is pushed, the checkout and the branch of the destination
\* stay as they were when it was opened, and at the end the patch of every
\* candidate that was not skipped as empty has been written; in a run
\* without -dump no patch is written.
C30_DumpUntouched ==
    pc # "idle" =>
        /\ cfg.dump =>
              /\ \A k \in 1..Len(trace) : trace[k].op \notin {"apply", "lfs", "push"}
              /\ local[cfg.dst] = remote[cfg.dst]
              /\ pc = "done" =>
                    Dumped = {commits[m].id :
                                 m \in {n \in 1..Len(commits) :
                                           Transform(rules, prefix[cfg.src], prefix[cfg.dst],
                                                     commits[n]).Diffs # <<>>}}
        /\ ~cfg.dump => Dumped = {}

\* a run with -dump has ended after writing two patches, the last of a
\* commit that changes a pointer file
C30_Witness ==
    /\ pc = "done" /\ cfg.dump
    /\ Cardinality(Dumped) = 2
    /\ HasOid(patch)
    /\ trace[Len(trace)].op = "dump"

(***************************************************************************)
(* Properties of the rewrite rules.                                        *)
(***************************************************************************)
\* the body the first k rewrite rules leave
RECURSIVE Evolved(_)
Evolved(k) ==
    IF k = 0 THEN rwOrig.Body
    ELSE IF MatchString(rwRules[k].pathRe, rwOrig.Path)
    THEN rewrite(rwRules[k], Evolved(k - 1))
    ELSE Evolved(k - 1)

\* the places of the rules that match the path of the diff
Matching == {k \in 1..Len(rwRules) : MatchString(rwRules[k].pathRe, rwOrig.Path)}

\* C19: rules.rewriteDiff leaves the path of the diff alone, and its body is
\* what the matching rules make of it in declaration order, each rule
\* working on the body the matching rule before it has left (the first on
\* the body the diff came with); rules that do not match leave it alone.
C19_RewriteOrder ==
    rwDone =>
        /\ rwDiff.Path = rwOrig.Path
        /\ rwDiff.Body = Evolved(Len(rwRules))
        /\ Matching = {} => rwDiff.Body = rwOrig.Body
        /\ \A k \in 1..Len(rwRules) :
              Matching = {k} => rwDiff.Body = rewrite(rwRules[k], rwOrig.Body)
        /\ \A k1, k2 \in 1..Len(rwRules) :
              (k1 < k2 /\ Matching = {k1, k2}) =>
                  rwDiff.Body = rewrite(rwRules[k2], rewrite(rwRules[k1], rwOrig.Body))

\* two rules match, the second replaces what the first has written, and
\* the result is none of the bodies a rule makes of the original body
C19_Witness ==
    /\ rwDone
    /\ Len(rwRules) = 2 /\ Matching = {1, 2}
    /\ rwRules[1].new = rwRules[2].old
    /\ Contains(rwOrig.Body, rwRules[1].old)
    /\ \A k \in Matching : rwDiff.Body # rewrite(rwRules[k], rwOrig.Body)

\* no rule that matches the path has a from-pattern that occurs in the body
NothingToReplace == \A k \in Matching : ~Contains(rwOrig.Body, rwRules[k].old)

\* n newlines
Newlines(n) == [k \in 1..n |-> "\n"]

\* C36: rules.rewriteDiff leaves a diff that no rule matches as it is,
\* changes nothing but the body of one that a rule matches, keeps the number
\* of lines of the body, and leaves the body as it is when the from-pattern
\* of no matching rule occurs in it.
C36_BodyFrame ==
    rwDone =>
        /\ rwDiff.Path = rwOrig.Path
        /\ Matching = {} => rwDiff = rwOrig
        /\ Len(Split(rwDiff.Body)) = Len(Split(rwOrig.Body))
        /\ NothingToReplace => rwDiff.Body = rwOrig.Body

\* the path is kept, a diff no rule matches is kept, and when nothing is
\* to replace the body is the one the diff came with and one newline for
\* every rule that matches the path
C36_BodyPlusNewlines ==
    rwDone =>
        /\ rwDiff.Path = rwOrig.Path
        /\ Matching = {} => rwDiff = rwOrig
        /\ NothingToReplace => rwDiff.Body = rwOrig.Body \o Newlines(Cardinality(Matching))

StripMarker(line) ==
    IF \E l \in {"diff", "---", "+++"} : line = zeroWidthSpace \o l
    THEN CHOOSE l \in {"diff", "---", "+++"} : line = zeroWidthSpace \o l
    ELSE line

Unescaped(body) == [k \in 1..Len(body) |-> StripMarker(body[k])]

\* C21: the Body parsePatchHeader makes of the bytes Patch.Write wrote for
\* a parsed Patch is the Body of that Patch, but for the zero width spaces
\* put in front of lines.
C21_BodyRoundTrip ==
    envPc = "back" => Unescaped(envBack.Body) = envPatch.Body

\* what does hold: the body comes back with the separator Write puts after
\* it ("---" and two empty lines) at its end
C21_BodyThenSeparator ==
    envPc = "back" => Unescaped(envBack.Body) = envPatch.Body \o <<"---", "", "">>

\* C22: no line of the body, the first included, begins with diff, --- or
\* +++ in the bytes Patch.Write writes.
C22_EveryLineEscaped ==
    envPc \in {"written", "back"} =>
        \A k \in 1..Len(envPatch.Body) : envText.body[k] \notin {"diff", "---", "+++"}

\* what does hold: the lines after the first are escaped, the others are
\* written as they are
C22_LaterLinesEscaped ==
    envPc \in {"written", "back"} =>
        \A k \in 1..Len(envPatch.Body) :
            /\ k > 1 => envText.body[k] \notin {"diff", "---", "+++"}
            /\ Unescaped(envText.body)[k] = envPatch.Body[k]

\* the text has one of the defects of a malformed patch
Malformed(b) ==
    \/ Len(b.from) < 2
    \/ Len(b.from) >= 2 /\ \E k \in 1..Len(b.from[2]) :
          \A d \in 1..Len(HexDigits) : b.from[2][k] # HexDigits[d]
    \/ Cardinality({k \in 1..Len(b.author) : b.author[k] = "@"}) # 1
    \/ b.subject = <<>>
    \/ \E k \in 1..Len(b.diffs) :
          /\ b.diffs[k] # <<>> /\ b.diffs[k][1] = "diff"
          /\ ~(/\ Len(b.diffs[k]) >= 4
               /\ SubSeq(b.diffs[k], 1, 3) = <<"diff", "--git", "a/">>)

\* C28: a text whose From line has fewer than two fields or a second field
\* that is no digest, whose From header has no address or more than one,
\* whose Subject is absent, or one of whose diff sections does not begin
\* with diff --git a/<path>, gives an error and no patch.
C28_MalformedRejected ==
    (envPc # "raw" /\ Malformed(envRaw)) => (envPc = "error" /\ envPatch = NoEnvelope)

\* the header of the text and its first section are well formed, its
\* second section has no header, and the text was rejected
C28_Witness ==
    /\ envPc = "error"
    /\ parsePatchHeader(envRaw).err = ""
    /\ Len(envRaw.diffs) > 3
    /\ parseDiffHeader(envRaw.diffs[1]) = "f"
    /\ envRaw.diffs[4][1] = "diff" /\ parseDiffHeader(envRaw.diffs[4]) = ""

(***************************************************************************)
(* Properties of the command line.                                         *)
(***************************************************************************)
\* the rule has a kind: a ":" ends it
HasKind(rule) == \E k \in 1..Len(rule) : rule[k] = ":"

Kind(rule) == SubSeq(rule, 1, IndexOf(rule, ":") - 1)

Arg(rule) == SubSeq(rule, IndexOf(rule, ":") + 1, Len(rule))

\* arg is pathre:/from/to/ for some separator in the place of "/", and
\* pathre and from are regular expressions
WellFormedRewrite(arg) ==
    \E n, s1, s2 \in 1..Len(arg) :
        /\ n + 1 = s1 /\ s1 < s2 /\ s2 < Len(arg)
        /\ arg[n] = ":" /\ \A k \in 1..(n - 1) : arg[k] # ":"
        /\ \A k \in s1..Len(arg) : arg[k] = arg[s1] <=> k \in {s1, s2, Len(arg)}
        /\ Compiles(SubSeq(arg, 1, n - 1))
        /\ Compiles(SubSeq(arg, s1 + 1, s2 - 1))

\* the rule is one of the configuration errors of a rule
BadRule(rule) ==
    \/ ~HasKind(rule)
    \/ HasKind(rule) /\
         \/ Kind(rule) \notin {<<"strip">>, <<"strip-message">>, <<"strip-commit">>, <<"rewrite">>}
         \/ Kind(rule) \in {<<"strip">>, <<"strip-message">>} /\ ~Compiles(Arg(rule))
         \/ Kind(rule) = <<"rewrite">> /\ ~WellFormedRewrite(Arg(rule))
         \/ Kind(rule) = <<"strip-commit">> /\
              \/ Len(Arg(rule)) < ShortLen
              \/ \E k \in 1..Len(Arg(rule)) :
                    Arg(rule)[k] \notin {"0", "1", "2", "3", "4", "5", "6", "7", "8", "9",
                                         "a", "b", "c", "d", "e", "f",
                                         "A", "B", "C", "D", "E", "F"}

\* the url of a spec: the text before its first comma
SpecURL(spec) == IF IndexOf(spec, ",") = 0 THEN spec ELSE SubSeq(spec, 1, IndexOf(spec, ",") - 1)

BadConfig(args) ==
    \/ args.push /\ args.dump
    \/ SpecURL(args.src) = SpecURL(args.dst)
    \/ \E k \in 1..Len(args.rules) : BadRule(args.rules[k])

NameOf(rest) ==
    IF rest # <<>> /\ rest[Len(rest)] = "\t" THEN SubSeq(rest, 1, Len(rest) - 1) ELSE rest

\* the path of the file in the destination: the prefix of the repository
\* taken off, the prefix of the destination put in front
Moved(path, pfx, dstPrefix) ==
    IF dstPrefix = <<>> THEN SubSeq(path, Len(pfx) + 1, Len(path))
    ELSE dstPrefix \o SubSeq(path, Len(pfx) + 1, Len(path))

\* the diff of a kept file has the moved path, its --- a/ and +++ b/ lines
\* name the path of the diff, its other lines and its body are those of git
Consistent(o) ==
    LET sect == GitSection(o.path, o.change)
    IN  /\ o.diff.Path = Moved(o.path, o.pfx, o.dstPrefix)
        /\ Len(o.diff.Meta) = Len(sect.Meta)
        /\ \A k \in 1..Len(sect.Meta) :
              IF sect.Meta[k].pre \in {"--- a/", "+++ b/"}
              THEN /\ o.diff.Meta[k].pre = sect.Meta[k].pre
                   /\ NameOf(o.diff.Meta[k].rest) = o.diff.Path
              ELSE o.diff.Meta[k] = sect.Meta[k]
        /\ o.diff.Body = sect.Body

\* C31: the diff Repo.Patch keeps for a file has the path of the file with
\* the prefix of the repository removed and the prefix of the destination
\* prepended, each --- a/ and +++ b/ line of its Meta carries that path,
\* and the other lines of Meta and the Body are unchanged.
C31_PathsConsistent ==
    (repoOp.kind = "patch" /\ repoOp.pc = "done" /\ repoOp.kept) => Consistent(repoOp)

\* the same for the files without a space in their name; and a file is
\* kept if its path has the prefix
C31_ConsistentNoSpace ==
    (repoOp.kind = "patch" /\ repoOp.pc = "done") =>
        /\ (repoOp.kept /\ ~HasSpace(repoOp.path)) => Consistent(repoOp)
        /\ HasPrefix(repoOp.path, repoOp.pfx) => repoOp.kept

\* C32: Apply of a patch without diffs returns no error, has run no git
\* command and has left the history of the checkout as it was.
C32_ApplyEmptyNoop ==
    (repoOp.kind = "apply" /\ repoOp.pc = "done" /\ repoOp.patch.Diffs = <<>>) =>
        /\ repoOp.err = ""
        /\ repoOp.cmds = <<>>
        /\ repoOp.hist = <<InitialCommit(1)>>

\* Apply has returned for a patch without diffs where git am would have
\* failed
C32_Witness ==
    /\ repoOp.kind = "apply" /\ repoOp.pc = "done"
    /\ repoOp.patch.Diffs = <<>> /\ ~repoOp.gitOk
    /\ repoOp.err = ""

\* C37: git push is run only after git lfs push has succeeded: the remote
\* has the branch only if it has the objects, and a Push whose push of the
\* objects failed has run no other command and returns that error.
C37_ObjectsBeforeBranch ==
    repoOp.kind = "push" =>
        /\ repoOp.branch => repoOp.objects
        /\ (\E k \in 1..Len(repoOp.cmds) : repoOp.cmds[k] = "push") =>
              /\ repoOp.cmds = <<"lfs push", "push">>
              /\ repoOp.lfsOk /\ repoOp.objects
        /\ (repoOp.pc = "done" /\ ~repoOp.lfsOk) =>
              repoOp.cmds = <<"lfs push">> /\ repoOp.err = "lfs push" /\ ~repoOp.branch

\* the push of the objects failed where the push of the branch would have
\* succeeded, and Push has returned
C37_Witness ==
    /\ repoOp.kind = "push" /\ repoOp.pc = "done"
    /\ ~repoOp.lfsOk /\ repoOp.gitOk
    /\ ~repoOp.branch

\* C38: the object file is never partial or empty; a new one is there only
\* after smudge and close have succeeded and the rename was made; when the
\* pointer has no oid, or smudge or close fails, CopyLFSObject returns an
\* error, the object file is not created and the temporary file is gone;
\* when the object exists it returns no error, runs no smudge and leaves
\* the object as it is.
C38_AtomicInstall ==
    repoOp.kind = "copy" =>
        /\ repoOp.final \in {"none", "old", "full"}
        /\ repoOp.final = "full" =>
              /\ repoOp.pc = "done" /\ repoOp.err = ""
              /\ repoOp.smudgeOk /\ repoOp.closeOk /\ repoOp.renameOk
              /\ repoOp.cmds = <<"lfs smudge">>
        /\ (/\ repoOp.pc = "done" /\ repoOp.readOk
            /\ \/ repoOp.pointer = "no oid"
               \/ /\ repoOp.pointer = "oid" /\ ~repoOp.exists /\ repoOp.createOk
                  /\ (~repoOp.smudgeOk \/ ~repoOp.closeOk))
           => /\ repoOp.err # ""
              /\ repoOp.final = (IF repoOp.exists THEN "old" ELSE "none")
              /\ repoOp.tmp = "none"
        /\ (repoOp.pc = "done" /\ repoOp.readOk /\ repoOp.pointer = "oid" /\ repoOp.exists)
           => repoOp.err = "" /\ repoOp.cmds = <<>> /\ repoOp.final = "old"

\* smudge has written the whole object, closing the temporary file failed,
\* and CopyLFSObject has returned
C38_Witness ==
    /\ repoOp.kind = "copy" /\ repoOp.pc = "done"
    /\ repoOp.cmds = <<"lfs smudge">> /\ repoOp.smudgeOk /\ ~repoOp.closeOk
    /\ repoOp.err = "close" /\ repoOp.final = "none" /\ repoOp.tmp = "none"

\* C39: when Open has returned without an error the HEAD of the checkout
\* is the head of the branch at the remote, no session of git am is
\* pending, and the commit the run before did not push is not the HEAD.
C39_OpenAtFetchedHead ==
    (repoOp.kind = "open" /\ repoOp.pc = "done" /\ repoOp.err = "") =>
        /\ repoOp.co.head = repoOp.remoteHead
        /\ repoOp.co.am = "none"
        /\ repoOp.co.head # "u"

\* Open has returned for a checkout whose HEAD was a commit the run
\* before did not push
C39_Witness ==
    /\ repoOp.kind = "open" /\ repoOp.pc = "done" /\ repoOp.err = ""
    /\ repoOp.co.orig = "u"
    /\ repoOp.co.head = "r0"

\* C34: a commit is found by the search of Step 1 if and only if ShipitID
\* returns a non-empty list for it
C34_TestsCoincide ==
    (repoOp.kind = "trailer" /\ repoOp.pc = "done") =>
        (repoOp.found <=> repoOp.ids # <<>>)

\* a commit that the search of Step 1 finds has a trailer for ShipitID to
\* extract
C34_FoundHasTrailer ==
    (repoOp.kind = "trailer" /\ repoOp.pc = "done" /\ repoOp.found) =>
        repoOp.ids # <<>>

\* C35: an incremental sync enumerates the commits of the branch of the
\* source spec after the last synced commit, up to the head of that
\* branch, the endpoint of an initial sync
C35_SameEndpoint ==
    (repoOp.kind = "range" /\ repoOp.pc = "done") =>
        LET b == BranchHist(parseSpec(repoOp.spec).branch)
        IN  /\ repoOp.initial # <<>> /\ Head(repoOp.initial) = b[Len(b)]
            /\ repoOp.incremental = LogAbove(b, NoPrefix, repoOp.last)

\* it does so in a checkout whose local branch is called master
C35_SameEndpointMaster ==
    (repoOp.kind = "range" /\ repoOp.pc = "done" /\ repoOp.remoteHead = <<"master">>) =>
        LET b == BranchHist(parseSpec(repoOp.spec).branch)
        IN  /\ repoOp.initial # <<>> /\ Head(repoOp.initial) = b[Len(b)]
            /\ repoOp.incremental = LogAbove(b, NoPrefix, repoOp.last)

\* C40: when Open returns an error after it has taken the lock of the
\* checkout (git clone, fetch or reset failed), the lock is released
C40_NoLockLeak ==
    (repoOp.kind = "open" /\ repoOp.pc = "done" /\ repoOp.err # "") =>
        repoOp.lock = "free"

\* the lock is released when the Repo that Open returned is closed
C40_ClosedReleases ==
    (repoOp.kind = "open" /\ repoOp.pc = "closed") => repoOp.lock = "free"

(***************************************************************************)
(* Properties of the concurrent processes.                                 *)
(***************************************************************************)
\* p runs a git command against the checkout of u
InGit(p, u) ==
    \/ ppc[p] \in {"clone", "fetch"} /\ Target(p) = u
    \/ ppc[p] = "work" /\ u \in {runOf[p].src, runOf[p].dst}

\* C6: a process that waits for a lock holds only locks of smaller urls,
\* and no set of processes waits in a circle, each for a lock that another
\* of the set holds.
C6_NoCircularWait ==
    /\ \A p \in Procs : ppc[p] = "wait" =>
          \A u \in LockURLs : lk[u] = p => u < Target(p)
    /\ ~\E S \in (SUBSET Procs) \ {{}} :
          \A p \in S : ppc[p] = "wait" /\ lk[Target(p)] \in S

\* two processes sync the same repositories in opposite directions; one
\* holds the first lock and works on, the other waits for that lock
C6_Witness ==
    \E p \in Procs, q \in Procs :
        /\ runOf[p].src = runOf[q].dst /\ runOf[p].dst = runOf[q].src
        /\ ppc[p] = "wait" /\ lk[Target(p)] = q
        /\ opening[q] = 2

\* C7: a process runs git commands against a checkout only while it holds
\* the lock of the checkout, so no two processes run git commands against
\* the same checkout at the same time.
C7_MutualExclusion ==
    /\ \A p \in Procs, u \in LockURLs : InGit(p, u) => lk[u] = p
    /\ \A p \in Procs, q \in Procs, u \in LockURLs :
          (InGit(p, u) /\ InGit(q, u)) => p = q

\* a process runs git against a checkout while another waits for its lock
C7_Witness ==
    \E p \in Procs, q \in Procs :
        p # q /\ InGit(p, Target(q)) /\ ppc[q] = "wait"

\* C8: the decision to clone fits the checkout as it is when the lock is
\* held: a process clones only a checkout that does not exist, and no Open
\* ends with a failed clone.
C8_CloneOnce ==
    \A p \in Procs :
        /\ ppc[p] = "clone" => ~checkout[Target(p)]
        /\ ppc[p] # "clonefailed"

\* C9: a process that found the lock held and waits for it comes to hold it.
C9_LockBlocks ==
    \A p \in Procs : (ppc[p] = "wait") ~> (lk[Target(p)] = p)

\* a process holds a lock it had to wait for
C9_Witness ==
    \E p \in Procs : waited[p] /\ lk[Target(p)] = p /\ ppc[p] \in {"clone", "fetch"}
====
